---- MODULE Spec2Model ----
(***************************************************************************)
(* DeepLeaf inference layer (backend/ml_service/deepleaf_inference.py):    *)
(* the lazily loaded model and class map, the two-stage health gate of     *)
(* predict_disease, label parsing, and the heuristic fallback classifier;  *)
(* the crop-conditioned adjustment of analyze_image (app.py) and the       *)
(* temporary files of the upload endpoints (fastapi_app.py, app.py).       *)
(*                                                                         *)
(* Number representation.  All arithmetic is exact integer arithmetic on   *)
(* scaled values:                                                          *)
(*   - channel means and std_rgb of an image: thousandths (0..1000);       *)
(*   - derived colour features: units of 1/FU (FU = 30000), the least      *)
(*     scale in which brightness (/3), green_dominance (/2), yellow_tint   *)
(*     (x 1.4) and dryness (/2) are integers;                              *)
(*   - class probabilities: units of 1/PU (PU = 100000);                   *)
(*   - scores on the 0..100 scale: units of 1/FU point, and (after the     *)
(*     0.6/0.4 weighting) 1/(10*FU) point;                                 *)
(*   - confidences in results: hundredths of a point (8000 is 80.00);      *)
(*   - health probabilities of analyze_image: units of 1/HU (HU = 10^8).   *)
(* The code computes in binary floating point; the model computes the     *)
(* same expressions exactly.                                               *)
(* Strings the code parses are sequences of one-character strings.         *)
(***************************************************************************)
EXTENDS Integers, Sequences, FiniteSets, TLC

VARIABLES
    tf,            \* the module-level name tf: TRUE when tensorflow imported
    model_file,    \* what is at MODEL_PATH: "missing", "ok", "corrupt"
    classes_file,  \* what is at CLASSES_PATH: a JSON object, or a marker
    _model,        \* module global _model
    _idx_to_label, \* module global _idx_to_label
    pc,            \* per thread: position inside predict_disease
    image,         \* per thread: the image at image_path
    frame,         \* per thread: locals of the running call
    result,        \* per thread: what the last call returned or raised
    loads,         \* number of completed build-and-load_weights sequences
    map_loads,     \* number of times the class map was read and cached
    argsort_ties,  \* how this numpy build orders equal keys in argsort
    tmp_files,     \* the temporary files of the endpoints that are on disk
    _training_lock, \* fastapi_app._training_lock: 0 when free, else the thread holding it
    run_threads    \* the threads started with target _run, in order of start

vars == <<tf, model_file, classes_file, argsort_ties, tmp_files, _training_lock, run_threads, _model, _idx_to_label, pc, image, frame, result, loads, map_loads>>

\* Python None: where an object may stand, where a str may stand, where an
\* index may stand
None == [none |-> TRUE]
NoneStr == <<"None">>
NoneIdx == 0 - 1

-----------------------------------------------------------------------------
(* Python str operations on sequences of characters.                       *)

Lowers == <<"a", "b", "c", "d", "e", "f", "g", "h", "i", "j", "k", "l", "m", "n", "o", "p", "q", "r", "s", "t", "u", "v", "w", "x", "y", "z">>
Uppers == <<"A", "B", "C", "D", "E", "F", "G", "H", "I", "J", "K", "L", "M", "N", "O", "P", "Q", "R", "S", "T", "U", "V", "W", "X", "Y", "Z">>
Digits == <<"0", "1", "2", "3", "4", "5", "6", "7", "8", "9">>

\* position of c in the tuple t, 0 when absent
IndexIn(t, c) == IF \E i \in 1..Len(t) : t[i] = c
                 THEN CHOOSE i \in 1..Len(t) : t[i] = c
                 ELSE 0

LowerChar(c) == IF IndexIn(Uppers, c) > 0 THEN Lowers[IndexIn(Uppers, c)] ELSE c
UpperChar(c) == IF IndexIn(Lowers, c) > 0 THEN Uppers[IndexIn(Lowers, c)] ELSE c

\* str.lower()
StrLower(s) == [i \in 1..Len(s) |-> LowerChar(s[i])]

\* str.capitalize(): first character upper-cased, the rest lower-cased
StrCapitalize(s) == [i \in 1..Len(s) |-> IF i = 1 THEN UpperChar(s[i]) ELSE LowerChar(s[i])]

\* sub occurs in s at position i
OccursAt(sub, s, i) == /\ i >= 1
                       /\ i + Len(sub) - 1 <= Len(s)
                       /\ \A k \in 1..Len(sub) : s[i + k - 1] = sub[k]

\* the least element of a set of positions, 0 for the empty set
MinOrZero(ps) == IF ps = {} THEN 0 ELSE CHOOSE i \in ps : \A j \in ps : i <= j
\* the greatest element of a set of positions, 0 for the empty set
MaxOrZero(ps) == IF ps = {} THEN 0 ELSE CHOOSE i \in ps : \A j \in ps : i >= j

\* str.find(sub, from) + 1: first position >= from where sub occurs, 0 if none
StrFind(sub, s, from) == MinOrZero({i \in from..(Len(s) - Len(sub) + 1) : OccursAt(sub, s, i)})

\* s.rfind(sub) + 1
StrRFind(sub, s) == MaxOrZero({i \in 1..Len(s) : OccursAt(sub, s, i)})

\* sub in s
StrIn(sub, s) == StrFind(sub, s, 1) > 0

\* s.startswith(prefix)
StrStartsWith(s, prefix) == OccursAt(prefix, s, 1)

\* s[i:] and s[:i] with 1-based positions
StrFrom(s, i) == SubSeq(s, i, Len(s))
StrUpTo(s, i) == SubSeq(s, 1, i)

\* s.split(sep, 1) as a tuple <<head, tail>>; <<s>> when sep does not occur
SplitOnceAt(s, sep, p) ==
    IF p = 0 THEN <<s>>
    ELSE <<StrUpTo(s, p - 1), StrFrom(s, p + Len(sep))>>
StrSplitOnce(s, sep) == SplitOnceAt(s, sep, StrFind(sep, s, 1))

\* s.replace(old, new): non-overlapping occurrences, left to right (old non-empty)
RECURSIVE StrReplace(_, _, _)
ReplaceAt(s, old, new, p) ==
    IF p = 0 THEN s
    ELSE StrUpTo(s, p - 1) \o new \o StrReplace(StrFrom(s, p + Len(old)), old, new)
StrReplace(s, old, new) == ReplaceAt(s, old, new, StrFind(old, s, 1))

\* s.split(sep): every piece, empty pieces included (sep non-empty)
RECURSIVE StrSplit(_, _)
SplitAt(s, sep, p) ==
    IF p = 0 THEN <<s>>
    ELSE <<StrUpTo(s, p - 1)>> \o StrSplit(StrFrom(s, p + Len(sep)), sep)
StrSplit(s, sep) == SplitAt(s, sep, StrFind(sep, s, 1))

\* s.strip()
RECURSIVE StrLStrip(_)
StrLStrip(s) == IF Len(s) > 0 /\ s[1] = " " THEN StrLStrip(Tail(s)) ELSE s
RECURSIVE StrRStrip(_)
StrRStrip(s) == IF Len(s) > 0 /\ s[Len(s)] = " " THEN StrRStrip(StrUpTo(s, Len(s) - 1)) ELSE s
StrStrip(s) == StrRStrip(StrLStrip(s))

\* s.split(): the words between runs of whitespace
RECURSIVE StrWords(_)
WordsAt(t, p) ==
    IF Len(t) = 0 THEN <<>>
    ELSE IF p = 0 THEN <<t>>
    ELSE <<StrUpTo(t, p - 1)>> \o StrWords(StrFrom(t, p + 1))
WordsOf(t) == WordsAt(t, StrFind(<<" ">>, t, 1))
StrWords(s) == WordsOf(StrLStrip(s))

\* " ".join(words)
RECURSIVE StrJoin(_)
StrJoin(words) ==
    IF Len(words) = 0 THEN <<>>
    ELSE IF Len(words) = 1 THEN words[1]
    ELSE words[1] \o <<" ">> \o StrJoin(Tail(words))

\* k.isdigit()
StrIsDigit(s) == Len(s) > 0 /\ \A i \in 1..Len(s) : IndexIn(Digits, s[i]) > 0

\* int(k) for a string of decimal digits
RECURSIVE StrToInt(_)
StrToInt(s) == IF Len(s) = 0 THEN 0
               ELSE 10 * StrToInt(StrUpTo(s, Len(s) - 1)) + (IndexIn(Digits, s[Len(s)]) - 1)

\* str(n) for n >= 0
RECURSIVE IntToStr(_)
IntToStr(n) == IF n < 10 THEN <<Digits[n + 1]>>
               ELSE IntToStr(n \div 10) \o <<Digits[(n % 10) + 1]>>

-----------------------------------------------------------------------------
(* String literals of the source.                                          *)

S_sep3 == <<"_", "_", "_">>
S_sep2 == <<"_", "_">>
S_sep1 == <<"_">>
S_space == <<" ">>
S_space2 == <<" ", " ">>
S_dash == <<"-">>
S_maize_paren == <<"(", "m", "a", "i", "z", "e", ")">>
S_healthy == <<"h", "e", "a", "l", "t", "h", "y">>
S_Healthy_Plant == <<"H", "e", "a", "l", "t", "h", "y", " ", "P", "l", "a", "n", "t">>
S_Healthy_Crop == <<"H", "e", "a", "l", "t", "h", "y", " ", "C", "r", "o", "p">>
S_corn_maize == <<"c", "o", "r", "n", "_", "(", "m", "a", "i", "z", "e", ")">>
S_corn == <<"c", "o", "r", "n">>
S_maize == <<"m", "a", "i", "z", "e">>
S_Class_ == <<"C", "l", "a", "s", "s", "_">>
S_slash == <<"/">>
S_dot == <<".">>
S_blight == <<"b", "l", "i", "g", "h", "t">>
S_rust == <<"r", "u", "s", "t">>
S_spot == <<"s", "p", "o", "t">>
S_mosaic == <<"m", "o", "s", "a", "i", "c">>
S_mildew == <<"m", "i", "l", "d", "e", "w">>
S_mold == <<"m", "o", "l", "d">>

CROP_TOKENS == {<<"w", "h", "e", "a", "t">>, <<"r", "i", "c", "e">>, <<"p", "a", "d", "d", "y">>, <<"m", "a", "i", "z", "e">>, <<"c", "o", "r", "n">>, <<"c", "o", "t", "t", "o", "n">>, <<"t", "o", "m", "a", "t", "o">>, <<"p", "o", "t", "a", "t", "o">>, <<"s", "o", "y", "b", "e", "a", "n">>, <<"g", "r", "a", "p", "e">>, <<"a", "p", "p", "l", "e">>, <<"p", "e", "p", "p", "e", "r">>}

-----------------------------------------------------------------------------
(* Scales.                                                                 *)

FU == 30 * 1000         \* colour features and scores: units per 1.0 / per point
PU == 100 * 1000        \* probabilities: units per 1.0
CENT == FU \div 100     \* score units per hundredth of a point

Max(a, b) == IF a >= b THEN a ELSE b
Min(a, b) == IF a <= b THEN a ELSE b
Abs(a) == IF a >= 0 THEN a ELSE -a

\* n / d for a decimal literal of the source, in feature units (exact)
Lit(n, d) == (n * FU) \div d

\* round(x, 2) of a score x given in 1/(10*FU) point, as hundredths of a point;
\* exact halves go to the even neighbour
Round2(x10) ==
    LET unit == 10 * CENT
        q == x10 \div unit
        r == x10 % unit
    IN IF 2 * r < unit THEN q
       ELSE IF 2 * r > unit THEN q + 1
       ELSE IF q % 2 = 0 THEN q ELSE q + 1

\* f"{x:.1f}" of a percentage x given in 1/FU point, as tenths of a point
Format1f(x) ==
    LET unit == FU \div 10
        q == x \div unit
        r == x % unit
    IN IF 2 * r < unit THEN q
       ELSE IF 2 * r > unit THEN q + 1
       ELSE IF q % 2 = 0 THEN q ELSE q + 1

-----------------------------------------------------------------------------
(* Colour features (lines 102-129).  An image is a record                  *)
(*   [ok, r, g, b, std, digest]:                                            *)
(* ok says whether PIL can decode the file, r/g/b are the channel means    *)
(* and std the mean channel deviation of the 128x128 resize (thousandths), *)
(* digest is int(md5(arr.tobytes()), 16).                                  *)

_extract_color_features(img) ==
    [ mean_r          |-> 30 * img.r,
      mean_g          |-> 30 * img.g,
      mean_b          |-> 30 * img.b,
      std_rgb         |-> 30 * img.std,
      brightness      |-> 10 * (img.r + img.g + img.b),
      green_dominance |-> 30 * img.g - 15 * (img.r + img.b),
      yellow_tint     |-> 30 * img.r + 30 * img.g - 42 * img.b,
      dryness         |-> 15 * ((1000 - img.g) + img.r) ]

-----------------------------------------------------------------------------
(* Symptom detector (lines 132-178).                                       *)

SymptomFlags(features) ==
    LET brightness == features.brightness
        green_dom == features.green_dominance
        yellow_tint == features.yellow_tint
        dryness == features.dryness
        std_rgb == features.std_rgb
    IN [ discoloration    |-> std_rgb > Lit(20, 100) /\ brightness < Lit(85, 100),
         chlorosis        |-> yellow_tint > Lit(16, 100) /\ green_dom < Lit(6, 100),
         necrotic_spots   |-> std_rgb > Lit(26, 100) /\ brightness < Lit(7, 10),
         wilting          |-> dryness > Lit(55, 100) /\ brightness < Lit(55, 100),
         abnormal_texture |-> std_rgb > Lit(23, 100) /\ Abs(green_dom) < Lit(10, 100) ]

\* variant of the score without the final max(40, min(97, ...))
HealthScoreUnclamped(features, symptoms) ==
    92 * FU
    - (IF symptoms.discoloration THEN 12 * FU ELSE 0)
    - (IF symptoms.chlorosis THEN 18 * FU ELSE 0)
    - (IF symptoms.necrotic_spots THEN 18 * FU ELSE 0)
    - (IF symptoms.wilting THEN 15 * FU ELSE 0)
    - (IF symptoms.abnormal_texture THEN 10 * FU ELSE 0)
    - Max(0, (features.yellow_tint - Lit(10, 100)) * 80)
    - Max(0, (features.dryness - Lit(5, 10)) * 50)

HealthScore(features, symptoms) ==
    LET s0 == 92 * FU
        s1 == IF symptoms.discoloration THEN s0 - 12 * FU ELSE s0
        s2 == IF symptoms.chlorosis THEN s1 - 18 * FU ELSE s1
        s3 == IF symptoms.necrotic_spots THEN s2 - 18 * FU ELSE s2
        s4 == IF symptoms.wilting THEN s3 - 15 * FU ELSE s3
        s5 == IF symptoms.abnormal_texture THEN s4 - 10 * FU ELSE s4
        s6 == s5 - Max(0, (features.yellow_tint - Lit(10, 100)) * 80)
        s7 == s6 - Max(0, (features.dryness - Lit(5, 10)) * 50)
    IN Max(40 * FU, Min(97 * FU, s7))

_detect_symptoms(features) ==
    LET symptoms == SymptomFlags(features)
    IN [symptoms |-> symptoms, health_score |-> HealthScore(features, symptoms)]

SymptomNames == {"discoloration", "chlorosis", "necrotic_spots", "wilting", "abnormal_texture"}

\* sum(1 for v in symptoms.values() if v)
SymptomCount(symptoms) == Cardinality({n \in SymptomNames : symptoms[n]})

-----------------------------------------------------------------------------
(* Label parsing (lines 295-346).                                          *)

\* Path(label).stem: the last path component without its last suffix
StemAt(name, i) == IF 1 < i /\ i < Len(name) THEN StrUpTo(name, i - 1) ELSE name
LastOrEmpty(parts) == IF Len(parts) = 0 THEN <<>> ELSE parts[Len(parts)]
StemOf(name) == StemAt(name, StrRFind(S_dot, name))
PathStem(label) == StemOf(LastOrEmpty(SelectSeq(StrSplit(label, S_slash), LAMBDA p : Len(p) > 0)))

\* 'maize' if crop is a spelling of corn (line 300; line 306 tests 'corn' only)
CornToMaize(crop, spellings) == IF crop \in spellings THEN S_maize ELSE crop

\* lines 302-307: the first token that names a crop
CropOfTokens(tokens) ==
    MinOrZero({i \in 1..Len(tokens) : StrLower(tokens[i]) \in CROP_TOKENS})
DeriveCropAt(tokens, k) ==
    IF k > 0 THEN CornToMaize(StrLower(tokens[k]), {S_corn}) ELSE NoneStr
DeriveCropFromTokens(tokens) == DeriveCropAt(tokens, CropOfTokens(tokens))

\* lines 297-300, then 302-307 when no crop came out of the split
DeriveCropHead(label, crop) ==
    IF Len(crop) > 0
    THEN CornToMaize(crop, {S_corn_maize, S_corn})
    ELSE DeriveCropFromTokens(StrSplit(StrReplace(PathStem(label), S_dash, S_sep1), S_sep1))
DeriveCropBase(label, base) ==
    DeriveCropHead(label,
        IF StrIn(S_sep3, base)
        THEN StrLower(StrStrip(StrSplitOnce(base, S_sep3)[1]))
        ELSE <<>>)

_derive_crop_from_label(label) == DeriveCropBase(label, StrReplace(label, S_sep2, S_sep3))

\* the nested helper _clean of _humanize_label (lines 324-328)
CapitalizeWords(ws) == StrJoin([i \in 1..Len(ws) |-> StrCapitalize(ws[i])])
_clean(text) ==
    StrStrip(CapitalizeWords(StrWords(
        StrReplace(
            StrStrip(StrReplace(StrReplace(StrReplace(text, S_sep2, S_sep1), S_sep3, S_sep1), S_sep1, S_space)),
            S_maize_paren, <<>>))))

\* lines 315-322: <<crop_raw, disease_raw>>
SplitLabel(label) ==
    IF StrIn(S_sep3, label) THEN StrSplitOnce(label, S_sep3)
    ELSE IF StrIn(S_sep2, label) THEN StrSplitOnce(label, S_sep2)
    ELSE StrSplitOnce(label, S_sep1)
DiseaseRaw(split) == IF Len(split) > 1 THEN split[2] ELSE <<>>

\* lines 339-344: the display name of a disease
StripDash(display) == IF StrStartsWith(display, S_dash) THEN StrStrip(StrFrom(display, 2)) ELSE display
DisplayName(disease, crop) ==
    StripDash(IF StrStartsWith(disease, crop) THEN StrStrip(StrFrom(disease, Len(crop) + 1)) ELSE disease)

\* lines 335-346
HumanizeReturn(crop, disease, is_healthy) ==
    [ display_name |-> IF is_healthy THEN S_Healthy_Plant ELSE DisplayName(disease, crop),
      crop_type    |-> IF Len(crop) > 0 THEN StrLower(crop) ELSE NoneStr,
      disease_key  |-> disease,
      is_healthy   |-> is_healthy ]

\* line 332
HumanizeCleaned(label, crop, disease) ==
    HumanizeReturn(crop, disease,
        StrIn(S_healthy, StrLower(disease)) \/ StrIn(S_healthy, StrLower(label)))

\* lines 330-331
HumanizeSplit(label, split) ==
    HumanizeCleaned(label, _clean(split[1]),
        StrStrip(StrReplace(_clean(DiseaseRaw(split)), S_space2, S_space)))

_humanize_label(label) == HumanizeSplit(label, SplitLabel(label))

S_Leaf_Blight == <<"L", "e", "a", "f", " ", "B", "l", "i", "g", "h", "t">>
S_Rust == <<"R", "u", "s", "t">>
S_Leaf_Spot == <<"L", "e", "a", "f", " ", "S", "p", "o", "t">>
S_Powdery_Mildew == <<"P", "o", "w", "d", "e", "r", "y", " ", "M", "i", "l", "d", "e", "w">>
S_Nutrient_Deficiency == <<"N", "u", "t", "r", "i", "e", "n", "t", " ", "D", "e", "f", "i", "c", "i", "e", "n", "c", "y">>
S_heuristic_fallback == <<"h", "e", "u", "r", "i", "s", "t", "i", "c", "_", "f", "a", "l", "l", "b", "a", "c", "k">>
S_open_paren == <<" ", "(">>
S_close_paren == <<")">>
S_no_model == <<"n", "o", "_", "m", "o", "d", "e", "l">>
S_low_conf == <<"l", "o", "w", "_", "c", "o", "n", "f", "(">>
S_ml_failure == <<"m", "l", "_", "f", "a", "i", "l", "u", "r", "e", ":", " ">>
MODEL_VERSION == <<"D", "e", "e", "p", "L", "e", "a", "f", " ", "v", "2", ".", "0">>

-----------------------------------------------------------------------------
(* Recommendation table (lines 349-387).                                   *)

_recommendations_for_label(disease_name, is_healthy) ==
    LET name == StrLower(disease_name)
    IN IF is_healthy THEN
         [ cause      |-> "No disease detected - Plant is healthy.",
           solution   |-> "Continue balanced nutrition, irrigation and weekly scouting.",
           prevention |-> "Maintain crop rotation, monitor pests, keep fields weed-free." ]
       ELSE IF StrIn(S_blight, name) THEN
         [ cause      |-> "Fungal infection thriving in humid, stagnant air.",
           solution   |-> "Spray Mancozeb/Chlorothalonil, remove infected leaves, improve drainage.",
           prevention |-> "Avoid overhead irrigation, ensure spacing, rotate crops every season." ]
       ELSE IF StrIn(S_rust, name) THEN
         [ cause      |-> "Rust spores spread by wind and dew on leaves.",
           solution   |-> "Apply systemic fungicide (triazole group), prune severely affected foliage.",
           prevention |-> "Plant resistant hybrids, sanitize tools, avoid working wet fields." ]
       ELSE IF StrIn(S_spot, name) \/ StrIn(S_mosaic, name) THEN
         [ cause      |-> "Bacterial or viral lesions spread via splashing water or insects.",
           solution   |-> "Remove infected leaves, spray copper/bactericide, control sucking pests.",
           prevention |-> "Use certified seedlings, disinfect tools, mulch to limit splash." ]
       ELSE IF StrIn(S_mildew, name) \/ StrIn(S_mold, name) THEN
         [ cause      |-> "Powdery spores colonize shaded leaves during humid nights.",
           solution   |-> "Spray sulfur or potassium bicarbonate, trim crowded shoots.",
           prevention |-> "Improve sunlight penetration, reduce nitrogen spikes, monitor weekly." ]
       ELSE
         [ cause      |-> "Pathogen stress (fungal/bacterial).",
           solution   |-> "Use appropriate fungicide/bactericide, remove affected leaves, ensure airflow.",
           prevention |-> "Rotate crops, maintain sanitation, avoid waterlogging." ]

-----------------------------------------------------------------------------
(* Heuristic fallback classifier (lines 390-483).                          *)

FALLBACK_LIBRARY(disease) ==
    CASE disease = S_Leaf_Blight ->
           [ cause      |-> "Fungal pathogens thrive in humid canopies with poor airflow.",
             solution   |-> "Remove infected leaves, spray copper fungicide, improve ventilation.",
             prevention |-> "Avoid overhead irrigation, ensure spacing, rotate crops yearly." ]
      [] disease = S_Rust ->
           [ cause      |-> "Rust spores spread by wind during warm humid spells.",
             solution   |-> "Apply systemic fungicide (triazole group) and trim infected leaves.",
             prevention |-> "Use resistant varieties, sanitize tools, keep foliage dry." ]
      [] disease = S_Leaf_Spot ->
           [ cause      |-> "Bacterial/fungal spots triggered by splashing water and dew.",
             solution   |-> "Spray Mancozeb or Chlorothalonil, avoid working plants when wet.",
             prevention |-> "Mulch soil, favor drip irrigation, rotate host crops." ]
      [] disease = S_Powdery_Mildew ->
           [ cause      |-> "Powdery spores colonize shaded leaves with dry days/humid nights.",
             solution   |-> "Apply potassium bicarbonate or sulfur spray, prune crowded shoots.",
             prevention |-> "Increase sunlight penetration, avoid high nitrogen, monitor weekly." ]
      [] disease = S_Nutrient_Deficiency ->
           [ cause      |-> "Imbalance in nitrogen/potassium and micronutrients causing chlorosis.",
             solution   |-> "Apply balanced NPK plus micronutrients, add compost tea foliar feed.",
             prevention |-> "Test soil each season, maintain organic matter, ensure drainage." ]

\* what a call raises instead of returning
Raised(kind) == [raised |-> kind]
IsRaised(res) == "raised" \in DOMAIN res

\* variant of the chain with the yellow-tint rule ahead of the deviation rule
FallbackBranchTintFirst(features) ==
    LET green_dominance == features.green_dominance
        yellow_tint == features.yellow_tint
        dryness == features.dryness
        brightness == features.brightness
    IN IF /\ green_dominance > Lit(4, 100)
          /\ yellow_tint < Lit(8, 100)
          /\ dryness < Lit(55, 100)
          /\ Lit(30, 100) < brightness /\ brightness < Lit(85, 100)
       THEN <<S_Healthy_Crop, 82>>
       ELSE IF yellow_tint > Lit(18, 100) THEN <<S_Nutrient_Deficiency, 67>>
       ELSE IF features.std_rgb > Lit(20, 100) THEN <<S_Leaf_Spot, 65>>
       ELSE IF dryness > Lit(55, 100) /\ brightness < Lit(45, 100) THEN <<S_Leaf_Blight, 66>>
       ELSE IF green_dominance < -Lit(8, 100) /\ features.mean_r > Lit(4, 10) THEN <<S_Rust, 66>>
       ELSE <<S_Powdery_Mildew, 64>>

\* the branch of the if/elif chain at lines 434-469: <<disease, base_conf>>
FallbackBranch(features) ==
    LET green_dominance == features.green_dominance
        yellow_tint == features.yellow_tint
        dryness == features.dryness
        brightness == features.brightness
    IN IF /\ green_dominance > Lit(4, 100)
          /\ yellow_tint < Lit(8, 100)
          /\ dryness < Lit(55, 100)
          /\ Lit(30, 100) < brightness /\ brightness < Lit(85, 100)
       THEN <<S_Healthy_Crop, 82>>
       ELSE IF features.std_rgb > Lit(20, 100) THEN <<S_Leaf_Spot, 65>>
       ELSE IF yellow_tint > Lit(18, 100) THEN <<S_Nutrient_Deficiency, 67>>
       ELSE IF dryness > Lit(55, 100) /\ brightness < Lit(45, 100) THEN <<S_Leaf_Blight, 66>>
       ELSE IF green_dominance < -Lit(8, 100) /\ features.mean_r > Lit(4, 10) THEN <<S_Rust, 66>>
       ELSE <<S_Powdery_Mildew, 64>>

\* variant of the confidence that rounds to the nearest integer instead of truncating
FallbackConfidenceRounded(features, digest, base_conf) ==
    LET boost2 == digest % 23
        raw == base_conf + ((Abs(features.green_dominance) + features.std_rgb) * 40 + boost2 * FU + FU) \div (2 * FU)
    IN Max(60, Min(raw, 93))

\* lines 429-430 and 471-472; rng_boost = (hash_int % 23) / 40, so
\* (|gd| + std + rng_boost) * 20 = (|gd| + std) * 20 + (hash_int % 23) / 2
FallbackConfidence(features, digest, base_conf) ==
    LET boost2 == digest % 23
        raw == base_conf + ((Abs(features.green_dominance) + features.std_rgb) * 40 + boost2 * FU) \div (2 * FU)
    IN Max(60, Min(raw, 93))

\* the recommendation texts of the chosen label (lines 444-448, 452-468)
FallbackTexts(disease) ==
    IF disease = S_Healthy_Crop
    THEN [ cause      |-> "No clear disease patterns detected - foliage appears healthy and well nourished.",
           solution   |-> "Maintain your current irrigation and nutrition schedule; continue routine scouting.",
           prevention |-> "Keep following good agronomy practices: crop rotation, balanced fertiliser and timely pest monitoring." ]
    ELSE FALLBACK_LIBRARY(disease)

\* f"heuristic_fallback ({reason or 'no_model'})"
FallbackVersion(reason) ==
    S_heuristic_fallback \o S_open_paren \o (IF Len(reason) > 0 THEN reason ELSE S_no_model) \o S_close_paren

\* lines 474-483
FallbackReturn(disease, confidence, library, reason, default_crop) ==
    [ prediction   |-> disease,
      disease      |-> disease,
      confidence   |-> 100 * confidence,
      modelVersion |-> FallbackVersion(reason),
      cropType     |-> default_crop,
      cause        |-> library.cause,
      suggestions  |-> library.solution,
      prevention   |-> library.prevention ]

FallbackOfBranch(features, digest, branch, reason, default_crop) ==
    FallbackReturn(branch[1], FallbackConfidence(features, digest, branch[2]),
                   FallbackTexts(branch[1]), reason, default_crop)

FallbackOfFeatures(features, digest, reason, default_crop) ==
    FallbackOfBranch(features, digest, FallbackBranch(features), reason, default_crop)

\* Image.open raises on an undecodable file (line 421)
fallback_prediction(img, reason, default_crop) ==
    IF ~img.ok THEN Raised("UnidentifiedImageError")
    ELSE FallbackOfFeatures(_extract_color_features(img), img.digest, reason, default_crop)

-----------------------------------------------------------------------------
(* Class map file and its loader (lines 73-87).                            *)
(* A JSON object is a function from keys (strings) to values; a value is   *)
(* [str |-> s] or [int |-> n].  The file is [kind |-> "object", data |-> o] *)
(* for such an object o, or [kind |-> "missing"], or [kind |->             *)
(* "unparseable"] (not JSON, or JSON that is not an object).  The global   *)
(* _idx_to_label is None or [map |-> m] for a dict m.                      *)

Label0 == <<"T", "o", "m", "a", "t", "o", "_", "_", "_", "L", "a", "t", "e", "_", "b", "l", "i", "g", "h", "t">>
Label1 == <<"T", "o", "m", "a", "t", "o", "_", "_", "_", "h", "e", "a", "l", "t", "h", "y">>
Label2 == <<"C", "o", "r", "n", "_", "(", "m", "a", "i", "z", "e", ")", "_", "_", "_", "C", "o", "m", "m", "o", "n", "_", "r", "u", "s", "t", "_">>
Label3 == <<"P", "o", "t", "a", "t", "o", "_", "_", "_", "E", "a", "r", "l", "y", "_", "b", "l", "i", "g", "h", "t">>

DatasetLabels == <<Label0, Label1, Label2, Label3>>

JStr(s) == [str |-> s]
JInt(n) == [int |-> n]
IsJStr(v) == "str" \in DOMAIN v

\* {"0": label0, "1": label1, ...}: the encoding deepleaf.py writes
JsonFile(o) == [kind |-> "object", data |-> o]
MissingFile == [kind |-> "missing"]
UnparseableFile == [kind |-> "unparseable"]

IdxKeyedFile == JsonFile([k \in {IntToStr(i - 1) : i \in 1..Len(DatasetLabels)} |-> JStr(DatasetLabels[StrToInt(k) + 1])])
\* {label0: 0, label1: 1, ...}
LabelKeyedFile == JsonFile([k \in {DatasetLabels[i] : i \in 1..Len(DatasetLabels)} |->
                     JInt((CHOOSE i \in 1..Len(DatasetLabels) : DatasetLabels[i] = k) - 1)])
\* {}
EmptyDict == [k \in {} |-> JInt(0)]
EmptyObjectFile == JsonFile(EmptyDict)
\* {"0": label0, label1: 1}: neither encoding
MixedFile == JsonFile([k \in {IntToStr(0), Label1} |-> IF k = Label1 THEN JInt(1) ELSE JStr(Label0)])

ClassesFiles == {MissingFile, UnparseableFile, EmptyObjectFile, IdxKeyedFile, LabelKeyedFile, MixedFile}


\* int(v) succeeds
IntOk(v) == IF IsJStr(v) THEN StrIsDigit(v.str) ELSE TRUE
\* int(v)
IntOf(v) == IF IsJStr(v) THEN StrToInt(v.str) ELSE v.int

\* a JSON value as json.load gives it: the str, or the number as it stands
JValue(v) == IF IsJStr(v) THEN v.str ELSE v

\* the value the try block assigns to _idx_to_label, None when it raises
ParseClassMap(file) ==
    IF file.kind # "object" THEN None
    ELSE LET data == file.data
         IN IF \A k \in DOMAIN data : StrIsDigit(k)
            THEN [map |-> [i \in {StrToInt(k) : k \in DOMAIN data} |->
                    (LET key == CHOOSE k \in DOMAIN data : StrToInt(k) = i IN JValue(data[key]))]]
            ELSE IF \A k \in DOMAIN data : IntOk(data[k])
            THEN [map |-> [i \in {IntOf(data[k]) : k \in DOMAIN data} |->
                    (CHOOSE k \in DOMAIN data : IntOf(data[k]) = i)]]
            ELSE None

\* the value of the global after _ensure_class_map_loaded ran
ClassMapAfterLoad(cur, file) == IF cur = None THEN ParseClassMap(file) ELSE cur

\* `_idx_to_label or {}`
OrEmpty(m) == IF m = None THEN EmptyDict ELSE m.map

\* d.get(k, default)
DictGet(d, k, default) == IF k \in DOMAIN d THEN d[k] ELSE default


-----------------------------------------------------------------------------
(* The label functions are pure; their values on the dataset's labels are  *)
(* computed once and looked up afterwards.                                 *)

KnownLabels == {DatasetLabels[i] : i \in 1..Len(DatasetLabels)}

HumanizeMemo == [l \in KnownLabels |-> _humanize_label(l)]
DeriveCropMemo == [l \in KnownLabels |-> _derive_crop_from_label(l)]
HealthyMemo == [l \in KnownLabels |-> StrIn(S_healthy, StrLower(l))]

Humanize(label) == IF label \in KnownLabels THEN HumanizeMemo[label] ELSE _humanize_label(label)
DeriveCrop(label) == IF label \in KnownLabels THEN DeriveCropMemo[label] ELSE _derive_crop_from_label(label)
\* "healthy" in label.lower()
MentionsHealthy(label) == IF label \in KnownLabels THEN HealthyMemo[label] ELSE StrIn(S_healthy, StrLower(label))

-----------------------------------------------------------------------------
(* predict_disease, the model path (lines 197-291).                        *)

\* np.argsort(probs): indices by ascending probability.  Equal probabilities
\* are ordered by index when ties = "stable" and by descending index when
\* ties = "reverse" (the sort kind is not a stable one).
ArgsortRank(probs, ties, i) ==
    Cardinality({j \in DOMAIN probs :
        \/ probs[j] < probs[i]
        \/ probs[j] = probs[i] /\ (IF ties = "stable" THEN j < i ELSE j > i)})

Argsort(probs, ties) ==
    [k \in 1..Cardinality(DOMAIN probs) |->
        CHOOSE i \in DOMAIN probs : ArgsortRank(probs, ties, i) = k - 1]

\* np.argsort(probs)[-3:][::-1]
Top3Indices(probs, ties) ==
    LET asc == Argsort(probs, ties)
        n == Len(asc)
    IN [k \in 1..Min(3, n) |-> asc[n + 1 - k]]

\* np.argmax(probs): the first index holding the maximum
Argmax(probs) ==
    CHOOSE i \in DOMAIN probs :
        /\ \A j \in DOMAIN probs : probs[j] <= probs[i]
        /\ \A j \in DOMAIN probs : probs[j] = probs[i] => i <= j

\* float(prob) * 100.0 as a score
Percent(prob) == prob * ((100 * FU) \div PU)

\* lines 229-231, ten times healthy_score_combined
HealthyScoreCombined10(health_score, green_dominance, healthy_score_model) ==
    6 * (health_score + Max(0, green_dominance * 90)) + 4 * healthy_score_model

\* line 235
UnhealthyScore(top_conf, symptom_count) == top_conf + symptom_count * 8 * FU

\* variant of the decision without the corroboration test
IsUnhealthyByScoreAlone(unhealthy_score, healthy_score_combined10, has_any_symptom, top_conf) ==
    10 * unhealthy_score >= healthy_score_combined10

\* variant of the decision with the probability threshold at 0.50
IsUnhealthyFromHalf(unhealthy_score, healthy_score_combined10, has_any_symptom, top_conf) ==
    /\ 10 * unhealthy_score >= healthy_score_combined10
    /\ (has_any_symptom \/ top_conf >= 50 * FU)

\* lines 237-239
IsUnhealthy(unhealthy_score, healthy_score_combined10, has_any_symptom, top_conf) ==
    /\ 10 * unhealthy_score >= healthy_score_combined10
    /\ (has_any_symptom \/ top_conf >= 70 * FU)

\* lines 197-239: the locals of Stage 1
Stage1(img, probs, idx_to_label, ties) ==
    LET color_features == _extract_color_features(img)
        det == _detect_symptoms(color_features)
        symptoms == det.symptoms
        health_score == det.health_score
        has_any_symptom == \E n \in SymptomNames : symptoms[n]
        top3_indices == Top3Indices(probs, ties)
        IsHealthyAt(k) == MentionsHealthy(DictGet(idx_to_label, top3_indices[k], <<>>))
        hit == IF \E k \in 1..Len(top3_indices) : IsHealthyAt(k)
               THEN CHOOSE k \in 1..Len(top3_indices) :
                       IsHealthyAt(k) /\ \A m \in 1..(k - 1) : ~IsHealthyAt(m)
               ELSE 0
        healthy_idx == IF hit > 0 THEN top3_indices[hit] ELSE NoneIdx
        healthy_conf == IF hit > 0 THEN Percent(probs[top3_indices[hit]]) ELSE 0
        top_idx == Argmax(probs)
        top_conf == Percent(probs[top_idx])
        raw_label == DictGet(idx_to_label, top_idx, S_Class_ \o IntToStr(top_idx))
        healthy_score_model == IF healthy_idx # NoneIdx THEN healthy_conf ELSE 0
        healthy_score_combined10 ==
            HealthyScoreCombined10(health_score, color_features.green_dominance, healthy_score_model)
        symptom_count == SymptomCount(symptoms)
        unhealthy_score == UnhealthyScore(top_conf, symptom_count)
        is_unhealthy == IsUnhealthy(unhealthy_score, healthy_score_combined10, has_any_symptom, top_conf)
    IN [ color_features |-> color_features,
         symptoms |-> symptoms,
         health_score |-> health_score,
         has_any_symptom |-> has_any_symptom,
         healthy_idx |-> healthy_idx,
         healthy_conf |-> healthy_conf,
         top_idx |-> top_idx,
         top_conf |-> top_conf,
         raw_label |-> raw_label,
         healthy_score_combined10 |-> healthy_score_combined10,
         symptom_count |-> symptom_count,
         unhealthy_score |-> unhealthy_score,
         is_unhealthy |-> is_unhealthy ]

\* variant of conf_healthy without the clamp of line 247
ConfHealthyUnclamped10(healthy_score_combined10, yellow_tint) ==
    healthy_score_combined10 - 10 * Max(0, (yellow_tint - Lit(10, 100)) * 80)

\* lines 245-247, ten times conf_healthy
ConfHealthy10(healthy_score_combined10, yellow_tint) ==
    Max(60 * FU * 10, Min(97 * FU * 10,
        healthy_score_combined10 - 10 * Max(0, (yellow_tint - Lit(10, 100)) * 80)))

\* lines 242-262: the result of the short-circuit
HealthyResult(s1, idx_to_label) ==
    LET conf_healthy10 == ConfHealthy10(s1.healthy_score_combined10, s1.color_features.yellow_tint)
        primary_crop == DeriveCrop(
                            IF s1.healthy_idx # NoneIdx
                            THEN DictGet(idx_to_label, s1.healthy_idx, <<>>)
                            ELSE s1.raw_label)
    IN [ healthStatus |-> "healthy",
         prediction   |-> S_Healthy_Crop,
         disease      |-> S_Healthy_Crop,
         confidence   |-> Round2(conf_healthy10),
         modelVersion |-> MODEL_VERSION,
         cropType     |-> primary_crop,
         note         |-> "No visible disease or nutrient deficiency detected",
         cause        |-> "No disease patterns or stress symptoms detected in the image.",
         suggestions  |-> "Continue regular irrigation, balanced fertiliser and field scouting.",
         prevention   |-> "Maintain crop rotation, monitor pests and keep field weed-free." ]

LOW_CONF_THRESHOLD == 30 * FU

\* f"low_conf({confidence:.1f})"
LowConfReason(confidence) ==
    LET q == Format1f(confidence)
    IN S_low_conf \o IntToStr(q \div 10) \o S_dot \o IntToStr(q % 10) \o S_close_paren

\* variant of the capping rule that leaves the confidence alone
UncappedConfidence(confidence, is_healthy, symptom_count) == confidence

\* lines 276-277: the capping rule
CappedConfidence(confidence, is_healthy, symptom_count) ==
    IF ~is_healthy /\ confidence > 80 * FU /\ symptom_count < 2 THEN 80 * FU ELSE confidence

\* lines 280-291: the result of Stage 2
Stage2Return(parsed, confidence, rec) ==
    [ healthStatus |-> "unhealthy",
      prediction   |-> IF ~parsed.is_healthy THEN parsed.display_name ELSE S_Healthy_Crop,
      disease      |-> parsed.display_name,
      confidence   |-> Round2(10 * confidence),
      modelVersion |-> MODEL_VERSION,
      cropType     |-> parsed.crop_type,
      note         |-> IF ~parsed.is_healthy THEN "" ELSE "No visible disease or nutrient deficiency detected",
      cause        |-> rec.cause,
      suggestions  |-> rec.solution,
      prevention   |-> rec.prevention ]

\* variant of Stage 2 whose low-confidence fallback drops the crop hint
Stage2ParsedNoCrop(img, s1, parsed) ==
    IF s1.top_conf < LOW_CONF_THRESHOLD
    THEN fallback_prediction(img, LowConfReason(s1.top_conf), NoneStr)
    ELSE Stage2Return(parsed,
                      CappedConfidence(s1.top_conf, parsed.is_healthy, s1.symptom_count),
                      _recommendations_for_label(parsed.disease_key, parsed.is_healthy))

\* variant of Stage 2 that also discards a confidence of exactly the threshold
Stage2ParsedInclusive(img, s1, parsed) ==
    IF s1.top_conf <= LOW_CONF_THRESHOLD
    THEN fallback_prediction(img, LowConfReason(s1.top_conf), parsed.crop_type)
    ELSE Stage2Return(parsed,
                      CappedConfidence(s1.top_conf, parsed.is_healthy, s1.symptom_count),
                      _recommendations_for_label(parsed.disease_key, parsed.is_healthy))

\* lines 265-291: Stage 2, given the parse of the top-1 label
Stage2Parsed(img, s1, parsed) ==
    IF s1.top_conf < LOW_CONF_THRESHOLD
    THEN fallback_prediction(img, LowConfReason(s1.top_conf), parsed.crop_type)
    ELSE Stage2Return(parsed,
                      CappedConfidence(s1.top_conf, parsed.is_healthy, s1.symptom_count),
                      _recommendations_for_label(parsed.disease_key, parsed.is_healthy))

Stage2Result(img, s1) == Stage2Parsed(img, s1, Humanize(s1.raw_label))

\* lines 242 and 264: the branch on Stage 1's verdict
Stage1Branch(img, s1, idx_to_label) ==
    IF ~s1.is_unhealthy THEN HealthyResult(s1, idx_to_label) ELSE Stage2Result(img, s1)

\* lines 207-291: what the try block returns once model.predict gave probs
ModelPathResult(img, probs, idx_to_label, ties) ==
    Stage1Branch(img, Stage1(img, probs, idx_to_label, ties), idx_to_label)

\* variant of the except clause that lets the exception through
ExceptReraise(img, exc) == Raised(exc)

\* line 293: the except clause
ExceptFallback(img, exc) == fallback_prediction(img, S_ml_failure \o <<exc>>, NoneStr)

-----------------------------------------------------------------------------
(* Inputs.                                                                 *)

NThreads == 2

Threads == 1..NThreads

\* channel means and deviations of the images tried (thousandths)
ChannelLevels == {200, 500, 900}
StdLevels == {0, 240, 270}
Digests == {0, 45}

Undecodable == [ok |-> FALSE, r |-> 0, g |-> 0, b |-> 0, std |-> 0, digest |-> 0]

\* a deviation std is attainable in every channel whose mean m has m(1-m) >= std^2
Attainable(img) ==
    \/ img.std = 0
    \/ \A m \in {img.r, img.g, img.b} : m * (1000 - m) >= img.std * img.std

Images ==
    {Undecodable} \cup
    {img \in [ok : {TRUE}, r : ChannelLevels, g : ChannelLevels, b : ChannelLevels,
              std : StdLevels, digest : Digests] : Attainable(img)}

\* softmax outputs tried: every vector over the classes with these entries
\* that sums to 1
ProbLevels == {0, 5000, 13000, 20000, 25000, 29000, 30000, 50000, 70000, 80000, 95000}

RECURSIVE SumTo(_, _)
SumTo(f, n) == IF n < 0 THEN 0 ELSE f[n] + SumTo(f, n - 1)

ProbVectors(num_classes) ==
    {p \in [0..(num_classes - 1) -> ProbLevels] : SumTo(p, num_classes - 1) = PU}

\* what the network can answer for the dataset's classes
ModelOutputs == ProbVectors(Len(DatasetLabels))

-----------------------------------------------------------------------------
(* The process: module state, and predict_disease step by step.            *)

Init ==
    /\ tf \in BOOLEAN
    /\ model_file \in {"missing", "ok", "corrupt"}
    /\ classes_file \in ClassesFiles
    /\ argsort_ties \in {"stable", "reverse"}
    /\ _model = None
    /\ _idx_to_label = None
    /\ pc = [t \in Threads |-> "idle"]
    /\ image = [t \in Threads |-> None]
    /\ frame = [t \in Threads |-> None]
    /\ result = [t \in Threads |-> None]
    /\ loads = 0
    /\ map_loads = 0
    /\ tmp_files = {}
    /\ _training_lock = 0
    /\ run_threads = << >>

\* what no step of predict_disease or of a helper writes
env == <<tf, model_file, classes_file, argsort_ties, tmp_files, _training_lock, run_threads>>

\* the call leaves through the except clause (lines 292-293) with exception e
Except(t, e) ==
    /\ result' = [result EXCEPT ![t] = ExceptFallback(image[t], e)]
    /\ pc' = [pc EXCEPT ![t] = "done"]
    /\ frame' = [frame EXCEPT ![t] = [e |-> e]]

\* lines 194-198: entry; _extract_color_features opens the image
Call(t, images) ==
    /\ pc[t] = "idle"
    /\ \E img \in images :
        /\ image' = [image EXCEPT ![t] = img]
        /\ IF img.ok
           THEN /\ pc' = [pc EXCEPT ![t] = "ensure_model"]
                /\ result' = [result EXCEPT ![t] = None]
           ELSE \* PIL raises; the except clause calls fallback_prediction, which raises again
                /\ pc' = [pc EXCEPT ![t] = "done"]
                /\ result' = [result EXCEPT ![t] = ExceptFallback(img, "cannot identify image file")]
    /\ frame' = [frame EXCEPT ![t] = IF image'[t].ok THEN None ELSE [e |-> "cannot identify image file"]]
    /\ UNCHANGED <<env, _model, _idx_to_label, loads, map_loads>>

\* variant of _ensure_model_loaded that does not test the cached _model
EnsureModelAlways(t) ==
    /\ pc[t] = "ensure_model"
    /\ IF ~tf
       THEN Except(t, "TensorFlow not available - cannot load model")
       ELSE IF model_file = "missing"
       THEN Except(t, "Model file not found at: MODEL_PATH")
       ELSE /\ pc' = [pc EXCEPT ![t] = "class_map"]
            /\ UNCHANGED <<result, frame>>
    /\ UNCHANGED <<env, _model, _idx_to_label, image, loads, map_loads>>

\* lines 53-61: _ensure_model_loaded up to the call of _ensure_class_map_loaded
EnsureModel(t) ==
    /\ pc[t] = "ensure_model"
    /\ IF _model # None
       THEN /\ pc' = [pc EXCEPT ![t] = "predict"]
            /\ UNCHANGED <<result, frame>>
       ELSE IF ~tf
       THEN Except(t, "TensorFlow not available - cannot load model")
       ELSE IF model_file = "missing"
       THEN Except(t, "Model file not found at: MODEL_PATH")
       ELSE /\ pc' = [pc EXCEPT ![t] = "class_map"]
            /\ UNCHANGED <<result, frame>>
    /\ UNCHANGED <<env, _model, _idx_to_label, image, loads, map_loads>>

\* lines 62-67: back in _ensure_model_loaded with the class map
ClassMapReturned(t, idx_to_label) ==
    IF DOMAIN idx_to_label = {}
    THEN Except(t, "Class map not found at: CLASSES_PATH")
    ELSE /\ pc' = [pc EXCEPT ![t] = "load_weights"]
         /\ frame' = [frame EXCEPT ![t] = [num_classes |-> Cardinality(DOMAIN idx_to_label)]]
         /\ UNCHANGED result

\* line 75 (and 87 when the map is cached): the test of the global
ClassMap(t) ==
    /\ pc[t] = "class_map"
    /\ IF _idx_to_label = None
       THEN /\ pc' = [pc EXCEPT ![t] = "read_class_map"]
            /\ UNCHANGED <<result, frame>>
       ELSE ClassMapReturned(t, OrEmpty(_idx_to_label))
    /\ UNCHANGED <<env, _model, _idx_to_label, image, loads, map_loads>>

\* lines 76-87: read the file, cache the map (None when that raised), return it
ReadClassMap(t) ==
    /\ pc[t] = "read_class_map"
    /\ _idx_to_label' = ParseClassMap(classes_file)
    /\ map_loads' = IF _idx_to_label' # None THEN map_loads + 1 ELSE map_loads
    /\ ClassMapReturned(t, OrEmpty(_idx_to_label'))
    /\ UNCHANGED <<env, _model, image, loads>>

\* lines 68-69: build the network and load the weights into it
LoadWeights(t) ==
    /\ pc[t] = "load_weights"
    /\ IF model_file = "corrupt"
       THEN /\ Except(t, "load_weights failed")
            /\ UNCHANGED loads
       ELSE /\ frame' = [frame EXCEPT ![t] = [model |-> [num_classes |-> frame[t].num_classes]]]
            /\ pc' = [pc EXCEPT ![t] = "assign_model"]
            /\ loads' = loads + 1
            /\ UNCHANGED result
    /\ UNCHANGED <<env, _model, _idx_to_label, image, map_loads>>

\* variant of line 70 in which the call that loaded the model fails after
\* the assignment
AssignModelThenFail(t) ==
    /\ pc[t] = "assign_model"
    /\ _model' = frame[t].model
    /\ Except(t, "first inference failed")
    /\ UNCHANGED <<env, _idx_to_label, image, loads, map_loads>>

\* line 70: _model = model
AssignModel(t) ==
    /\ pc[t] = "assign_model"
    /\ _model' = frame[t].model
    /\ pc' = [pc EXCEPT ![t] = "predict"]
    /\ frame' = [frame EXCEPT ![t] = None]
    /\ UNCHANGED <<env, _idx_to_label, image, result, loads, map_loads>>

\* lines 71 and 201-203: return _model; preprocess; model.predict
Predict(t, outputs) ==
    /\ pc[t] = "predict"
    /\ \/ \E probs \in outputs :
            /\ DOMAIN probs = 0..(_model.num_classes - 1)
            /\ frame' = [frame EXCEPT ![t] = [probs |-> probs]]
            /\ pc' = [pc EXCEPT ![t] = "gate"]
            /\ UNCHANGED result
       \/ Except(t, "model.predict failed")
    /\ UNCHANGED <<env, _model, _idx_to_label, image, loads, map_loads>>

\* lines 205-291: _ensure_class_map_loaded again, then both stages
Gate(t) ==
    /\ pc[t] = "gate"
    /\ _idx_to_label' = ClassMapAfterLoad(_idx_to_label, classes_file)
    /\ result' = [result EXCEPT ![t] =
                    ModelPathResult(image[t], frame[t].probs, OrEmpty(_idx_to_label'), argsort_ties)]
    /\ pc' = [pc EXCEPT ![t] = "done"]
    /\ UNCHANGED frame
    /\ map_loads' = IF _idx_to_label = None /\ _idx_to_label' # None THEN map_loads + 1 ELSE map_loads
    /\ UNCHANGED <<env, _model, image, loads>>

\* the caller takes the result (or the exception) and drops the image
Return(t) ==
    /\ pc[t] = "done"
    /\ pc' = [pc EXCEPT ![t] = "idle"]
    /\ image' = [image EXCEPT ![t] = None]
    /\ result' = [result EXCEPT ![t] = None]
    /\ frame' = [frame EXCEPT ![t] = None]
    /\ UNCHANGED <<env, _model, _idx_to_label, loads, map_loads>>

\* one caller at a time
Next ==
    \/ Call(1, Images)
    \/ EnsureModel(1)
    \/ ClassMap(1)
    \/ ReadClassMap(1)
    \/ LoadWeights(1)
    \/ AssignModel(1)
    \/ Predict(1, ModelOutputs)
    \/ Gate(1)
    \/ Return(1)

Spec == Init /\ [][Next]_vars

-----------------------------------------------------------------------------
(* Concurrent callers: every thread runs predict_disease on its own image; *)
(* the steps interleave at each access to the module globals.              *)

ConcImages == {img \in Images : img.ok /\ img.r = 200 /\ img.g = 500 /\ img.b = 200 /\ img.std = 0 /\ img.digest = 0}
ConcOutputs == {p \in ModelOutputs : p[0] = 95000 /\ p[1] = 5000}

NextConc ==
    \E t \in Threads :
        \/ Call(t, ConcImages)
        \/ EnsureModel(t)
        \/ ClassMap(t)
        \/ ReadClassMap(t)
        \/ LoadWeights(t)
        \/ AssignModel(t)
        \/ Predict(t, ConcOutputs)
        \/ Gate(t)
        \/ Return(t)

SpecConc == Init /\ [][NextConc]_vars

-----------------------------------------------------------------------------
(* Repeated calls on the same images: the loaded network is a function of  *)
(* the preprocessed image, so model.predict answers the same image with    *)
(* the same vector every time.                                             *)

\* an image whose every pixel is (0, 255, 0)
GreenImage == [ok |-> TRUE, r |-> 0, g |-> 1000, b |-> 0, std |-> 0, digest |-> 0]

RepeatImages ==
    {Undecodable, GreenImage} \cup
    {img \in Images : img.ok /\ img.r = 200 /\ img.g = 500 /\ img.b = 200
                              /\ img.std \in {0, 270} /\ img.digest = 0}

\* what this weight file answers: a confident disease for the even image,
\* a flat answer for the other
NetworkAnswer(img) ==
    IF img.std = 0
    THEN [i \in 0..3 |-> <<95000, 5000, 0, 0>>[i + 1]]
    ELSE [i \in 0..3 |-> <<25000, 25000, 25000, 25000>>[i + 1]]

\* lines 71 and 201-203 with the network's answer for the image of the call
PredictSame(t) ==
    /\ pc[t] = "predict"
    /\ frame' = [frame EXCEPT ![t] = [probs |-> NetworkAnswer(image[t])]]
    /\ pc' = [pc EXCEPT ![t] = "gate"]
    /\ UNCHANGED <<env, _model, _idx_to_label, image, result, loads, map_loads>>

NextRepeat ==
    \E t \in Threads :
        \/ Call(t, RepeatImages)
        \/ EnsureModel(t)
        \/ ClassMap(t)
        \/ ReadClassMap(t)
        \/ LoadWeights(t)
        \/ AssignModel(t)
        \/ PredictSame(t)
        \/ Gate(t)
        \/ Return(t)

SpecRepeat == Init /\ [][NextRepeat]_vars

-----------------------------------------------------------------------------
(* Crop-conditioned adjustment of the health probabilities in              *)
(* analyze_image (app.py lines 267-347).  A probability is an integer      *)
(* number of units of 1e-8; the adjusted vector is kept exactly, as the    *)
(* numerators num[0..2] over the common denominator den.                   *)

HU == 100 * 1000 * 1000     \* health probabilities: units per 1.0

\* model_architecture.py lines 12-15
CROP_TYPES ==
    <<"Paddy", "Wheat", "Maize", "Cotton", "Sugarcane", "Soybean",
      "Chickpea", "Mustard", "Groundnut", "Potato", "Onion", "Tomato">>

\* model_architecture.py lines 161-166: CROP_TYPES.index, 0 on ValueError
get_crop_type_index(crop_type) ==
    IF \E i \in 1..Len(CROP_TYPES) : CROP_TYPES[i] = crop_type
    THEN (CHOOSE i \in 1..Len(CROP_TYPES) : CROP_TYPES[i] = crop_type) - 1
    ELSE 0

\* variant of the guard that takes every crop_type as declared
CropAlwaysDeclared(crop_type) == TRUE

\* lines 269 and 301: `crop_type and crop_type != 'Unknown'`
CropDeclared(crop_type) == crop_type # "" /\ crop_type # "Unknown"

\* variant of the pattern that is the same for every crop
PatternZero(crop_idx) == 0

\* lines 278 and 323: pattern = crop_idx % 3
Pattern(crop_idx) == crop_idx % 3

\* lines 273-276 and 315-319: base_adjustment * (offset + (crop_idx % N) * 0.1),
\* base_adjustment in hundredths and offset in tenths
CropAdjustment(base100, offset10, N, crop_idx) ==
    ((base100 * (HU \div 100)) * (offset10 + (crop_idx % N))) \div 10

\* the three assignments of one pattern: the class `pattern` gains
\* crop_adjustment, capped at 1, the others lose crop_adjustment times their
\* factor (tenths), floored at 0
Shift(health_pred, pattern, crop_adjustment, factor10) ==
    [i \in 0..2 |->
        IF i = pattern
        THEN Min(HU, health_pred[i] + crop_adjustment)
        ELSE Max(0, health_pred[i] - (crop_adjustment * factor10[i]) \div 10)]

\* lines 280-291: the factors of the multi-modal path
MultiModalFactors(pattern) ==
    CASE pattern = 0 -> [i \in 0..2 |-> <<0, 7, 5>>[i + 1]]
      [] pattern = 1 -> [i \in 0..2 |-> <<5, 0, 7>>[i + 1]]
      [] OTHER       -> [i \in 0..2 |-> <<6, 4, 0>>[i + 1]]

\* lines 329-343: the factors of the single-modal (legacy) path
LegacyFactors(pattern) ==
    CASE pattern = 0 -> [i \in 0..2 |-> <<0, 8, 6>>[i + 1]]
      [] pattern = 1 -> [i \in 0..2 |-> <<6, 0, 8>>[i + 1]]
      [] OTHER       -> [i \in 0..2 |-> <<7, 5, 0>>[i + 1]]

\* variant that leaves the shifted vector as it is
NormalizeSkipped(health_pred) == [num |-> health_pred, den |-> HU]

\* lines 293 and 346: health_pred / (health_pred.sum() + 1e-8)
Normalize(health_pred) ==
    [num |-> health_pred, den |-> health_pred[0] + health_pred[1] + health_pred[2] + 1]

\* lines 270-293
AdjustMultiModal(crop_idx, health_pred) ==
    Normalize(Shift(health_pred, Pattern(crop_idx), CropAdjustment(15, 5, 10, crop_idx),
                    MultiModalFactors(Pattern(crop_idx))))

\* lines 303-346
AdjustLegacy(crop_idx, health_pred) ==
    Normalize(Shift(health_pred, Pattern(crop_idx), CropAdjustment(30, 6, 9, crop_idx),
                    LegacyFactors(Pattern(crop_idx))))

\* lines 244-347: predictions[0][0] after the branch taken, for the model's
\* answer health_pred
AdjustedHealth(use_multi_modal, crop_type, health_pred) ==
    IF ~CropDeclared(crop_type) THEN [num |-> health_pred, den |-> HU]
    ELSE IF use_multi_modal THEN AdjustMultiModal(get_crop_type_index(crop_type), health_pred)
    ELSE AdjustLegacy(get_crop_type_index(crop_type), health_pred)

-----------------------------------------------------------------------------
(* The helpers called on their own: one call of a function is one step,    *)
(* frame holds its name and arguments and result what it returned.         *)

\* the deviations and channel means of the images whose features are tried
FeatureStdLevels == {0, 200, 210, 230, 240, 260, 270}
FeatureChannelLevels == {200, 400, 500, 600, 900}

FeatureImages ==
    {img \in [ok : {TRUE}, r : FeatureChannelLevels, g : FeatureChannelLevels,
              b : FeatureChannelLevels, std : FeatureStdLevels, digest : {0}] :
        Attainable(img)}

\* lines 132-178: _detect_symptoms(features) on the features of an image
CallDetectSymptoms(t) ==
    /\ pc[t] = "idle"
    /\ \E img \in FeatureImages :
        LET features == _extract_color_features(img)
        IN /\ frame' = [frame EXCEPT ![t] = [fn |-> "_detect_symptoms", args |-> [features |-> features]]]
           /\ result' = [result EXCEPT ![t] = _detect_symptoms(features)]
    /\ pc' = [pc EXCEPT ![t] = "done"]
    /\ UNCHANGED <<env, _model, _idx_to_label, image, loads, map_loads>>

\* class labels "Tomato___leaf_<words>_" for every choice of these words
LabelWords == <<S_healthy, S_blight, S_rust, S_spot, S_mosaic, S_mildew, S_mold>>
LabelStem == <<"T", "o", "m", "a", "t", "o", "_", "_", "_", "l", "e", "a", "f", "_">>

RECURSIVE LabelTail(_, _)
LabelTail(chosen, i) ==
    IF i > Len(LabelWords) THEN <<>>
    ELSE (IF i \in chosen THEN LabelWords[i] \o S_sep1 ELSE <<>>) \o LabelTail(chosen, i + 1)

WordLabels == {LabelStem \o LabelTail(chosen, 1) : chosen \in SUBSET (1..Len(LabelWords))}

\* lines 268 and 279: the label is parsed and the recommendation looked up
\* for its disease_key and is_healthy
CallRecommendations(t) ==
    /\ pc[t] = "idle"
    /\ \E label \in WordLabels :
        LET parsed == _humanize_label(label)
        IN /\ frame' = [frame EXCEPT ![t] =
                  [fn |-> "_recommendations_for_label",
                   args |-> [disease_name |-> parsed.disease_key, is_healthy |-> parsed.is_healthy]]]
           /\ result' = [result EXCEPT ![t] =
                  _recommendations_for_label(parsed.disease_key, parsed.is_healthy)]
    /\ pc' = [pc EXCEPT ![t] = "done"]
    /\ UNCHANGED <<env, _model, _idx_to_label, image, loads, map_loads>>

\* the crop types a request declares: the vocabulary, one name outside it,
\* the default of the endpoint and the empty string
CropInputs == {CROP_TYPES[i] : i \in 1..Len(CROP_TYPES)} \cup {"Banana", "Unknown", ""}

\* the 3-way health answers tried: multiples of 0.05 that sum to 1
HealthVectors ==
    {h \in [0..2 -> {k * (HU \div 20) : k \in 0..20}] : h[0] + h[1] + h[2] = HU}

\* lines 244-347 of analyze_image: the model answers health_pred and the
\* branch taken adjusts it
CallAnalyzeImage(t) ==
    /\ pc[t] = "idle"
    /\ \E use_multi_modal \in BOOLEAN, crop_type \in CropInputs, health_pred \in HealthVectors :
        /\ frame' = [frame EXCEPT ![t] =
               [fn |-> "analyze_image",
                args |-> [use_multi_modal |-> use_multi_modal, crop_type |-> crop_type,
                          health_pred |-> health_pred]]]
        /\ result' = [result EXCEPT ![t] = AdjustedHealth(use_multi_modal, crop_type, health_pred)]
    /\ pc' = [pc EXCEPT ![t] = "done"]
    /\ UNCHANGED <<env, _model, _idx_to_label, image, loads, map_loads>>

MaxClasses == 3

\* class names a dataset directory can hold
LabelPool == {Label0, Label1, <<"7">>, <<"1", "2">>}

\* the class lists of up to MaxClasses distinct names: index i - 1 has name
\* labels[i]
ClassLists ==
    {labels \in UNION {[1..n -> LabelPool] : n \in 1..MaxClasses} :
        \A i, j \in DOMAIN labels : labels[i] = labels[j] => i = j}

\* {"0": name0, "1": name1, ...}
IndexKeyed(labels) ==
    JsonFile([k \in {IntToStr(i - 1) : i \in DOMAIN labels} |-> JStr(labels[StrToInt(k) + 1])])

\* {name0: 0, name1: 1, ...}
LabelKeyed(labels) ==
    JsonFile([k \in {labels[i] : i \in DOMAIN labels} |->
                JInt((CHOOSE i \in DOMAIN labels : labels[i] = k) - 1)])

\* what is at CLASSES_PATH for a class list written in an encoding
ClassesFileOf(labels, encoding) ==
    CASE encoding = "index" -> IndexKeyed(labels)
      [] encoding = "label" -> LabelKeyed(labels)
      [] encoding = "missing" -> MissingFile
      [] OTHER -> UnparseableFile

\* lines 73-87: _ensure_class_map_loaded() in a process that has not loaded
\* the map yet
CallEnsureClassMap(t) ==
    /\ pc[t] = "idle"
    /\ \E labels \in ClassLists, encoding \in {"index", "label", "missing", "unparseable"} :
        /\ frame' = [frame EXCEPT ![t] =
               [fn |-> "_ensure_class_map_loaded", args |-> [labels |-> labels, encoding |-> encoding]]]
        /\ result' = [result EXCEPT ![t] =
               OrEmpty(ClassMapAfterLoad(None, ClassesFileOf(labels, encoding)))]
    /\ pc' = [pc EXCEPT ![t] = "done"]
    /\ UNCHANGED <<env, _model, _idx_to_label, image, loads, map_loads>>

NextCalls ==
    \/ CallAnalyzeImage(1)
    \/ CallEnsureClassMap(1)
    \/ CallDetectSymptoms(1)
    \/ CallRecommendations(1)
    \/ Return(1)

InitCalls ==
    /\ Init
    /\ tf /\ model_file = "ok" /\ classes_file = IdxKeyedFile /\ argsort_ties = "stable"

SpecCalls == InitCalls /\ [][NextCalls]_vars

-----------------------------------------------------------------------------
(* The endpoints that take an upload: POST /predict (fastapi_app.py lines  *)
(* 58-165) and POST /analyze (app.py lines 431-514).  Each request is one  *)
(* thread; frame holds the handler's locals, tmp_path being 0 while it is  *)
(* unbound, and result the response.                                       *)

MaxTmpFiles == 3

\* the names tempfile can give out
TmpNames == 1..MaxTmpFiles

Endpoints == {"/predict", "/analyze"}

\* what a client posts: whether the form has the part "image", the part's
\* filename and its bytes
Uploads ==
    [present : BOOLEAN, filename : {"", "leaf.jpg"}, content : {Undecodable} \cup ConcImages]

\* the handler leaves with a response of this status (an exception that
\* reaches the framework is answered with 500)
Respond(t, status) ==
    /\ result' = [result EXCEPT ![t] = [status |-> status]]
    /\ pc' = [pc EXCEPT ![t] = "done"]

\* a request arrives; FastAPI runs the handler only when the required part
\* is there (File(...), line 59)
Request(t) ==
    /\ pc[t] = "idle"
    /\ \E endpoint \in Endpoints, upload \in Uploads :
        /\ endpoint = "/predict" => upload.present
        /\ frame' = [frame EXCEPT ![t] = [fn |-> endpoint, upload |-> upload, tmp_path |-> 0]]
        /\ pc' = [pc EXCEPT ![t] = IF endpoint = "/analyze" THEN "validate" ELSE "mktemp"]
    /\ UNCHANGED <<env, _model, _idx_to_label, image, result, loads, map_loads>>

\* app.py lines 435-436 and 477-478
Validate(t) ==
    /\ pc[t] = "validate"
    /\ IF ~frame[t].upload.present \/ frame[t].upload.filename = ""
       THEN Respond(t, 400)
       ELSE pc' = [pc EXCEPT ![t] = "mktemp"] /\ UNCHANGED result
    /\ UNCHANGED <<env, _model, _idx_to_label, image, frame, loads, map_loads>>

\* fastapi_app.py line 62, app.py line 482: NamedTemporaryFile(delete=False)
\* creates a file under a name not in use
MakeTemp(t) ==
    /\ pc[t] = "mktemp"
    /\ \E name \in TmpNames \ tmp_files :
        /\ \A other \in TmpNames \ tmp_files : name <= other
        /\ tmp_files' = tmp_files \cup {name}
        /\ frame' = [frame EXCEPT ![t].tmp_path = name]
    /\ pc' = [pc EXCEPT ![t] = IF frame[t].fn = "/predict" THEN "read" ELSE "write"]
    /\ UNCHANGED <<tf, model_file, classes_file, argsort_ties, _training_lock, run_threads,
                   _model, _idx_to_label, image, result, loads, map_loads>>

\* fastapi_app.py line 63: `await image.read()` returns the bytes or raises;
\* the with block closes the file and the exception leaves the handler
ReadUpload(t) ==
    /\ pc[t] = "read"
    /\ \/ pc' = [pc EXCEPT ![t] = "write"] /\ UNCHANGED result
       \/ Respond(t, 500)
    /\ UNCHANGED <<env, _model, _idx_to_label, image, frame, loads, map_loads>>

\* fastapi_app.py lines 64-65: tmp.write(content); app.py lines 483-484:
\* file.save(tmp_file.name).  Either may raise: in /predict the exception
\* leaves the handler, in /analyze the outer except (line 510) answers 500
WriteUpload(t) ==
    /\ pc[t] = "write"
    /\ \/ /\ pc' = [pc EXCEPT ![t] = "try"]
          /\ image' = [image EXCEPT ![t] = frame[t].upload.content]
          /\ UNCHANGED result
       \/ Respond(t, 500) /\ UNCHANGED image
    /\ UNCHANGED <<env, _model, _idx_to_label, frame, loads, map_loads>>

\* what predict_disease(tmp_path) can return or raise for the image written
PredictOutcomes(img) ==
    {ExceptFallback(img, "Model file not found at: MODEL_PATH")} \cup
    {ModelPathResult(img, probs, OrEmpty(ParseClassMap(IdxKeyedFile)), "stable") : probs \in ConcOutputs}

\* fastapi_app.py lines 67-160: the try block and its except clauses; an
\* exception of predict_disease is answered by fallback_prediction on the
\* same file, which raises again when the image cannot be decoded
TryPredict(t) ==
    /\ pc[t] = "try" /\ frame[t].fn = "/predict"
    /\ \E pred \in PredictOutcomes(image[t]) :
        result' = [result EXCEPT ![t] =
            IF IsRaised(pred) /\ IsRaised(fallback_prediction(image[t], <<"e">>, NoneStr))
            THEN [status |-> 500]
            ELSE [status |-> 200]]
    /\ pc' = [pc EXCEPT ![t] = "finally"]
    /\ UNCHANGED <<env, _model, _idx_to_label, image, frame, loads, map_loads>>

\* app.py lines 486-503: analyze_image returns a result, returns None (no
\* model loaded, lines 228-229) or raises
TryAnalyze(t) ==
    /\ pc[t] = "try" /\ frame[t].fn = "/analyze"
    /\ \E outcome \in {"result", "None", "raised"} :
        result' = [result EXCEPT ![t] = [status |-> IF outcome = "result" THEN 200 ELSE 500]]
    /\ pc' = [pc EXCEPT ![t] = "finally"]
    /\ UNCHANGED <<env, _model, _idx_to_label, image, frame, loads, map_loads>>

\* fastapi_app.py lines 161-165, app.py lines 504-509: the finally clause
\* removes the file at tmp_path
Finally(t) ==
    /\ pc[t] = "finally"
    /\ tmp_files' = tmp_files \ {frame[t].tmp_path}
    /\ pc' = [pc EXCEPT ![t] = "done"]
    /\ UNCHANGED <<tf, model_file, classes_file, argsort_ties, _training_lock, run_threads,
                   _model, _idx_to_label, image, frame, result, loads, map_loads>>

NextHttp ==
    \E t \in Threads :
        \/ Request(t)
        \/ Validate(t)
        \/ MakeTemp(t)
        \/ ReadUpload(t)
        \/ WriteUpload(t)
        \/ TryPredict(t)
        \/ TryAnalyze(t)
        \/ Finally(t)
        \/ Return(t)

SpecHttp == InitCalls /\ [][NextHttp]_vars

-----------------------------------------------------------------------------
(* POST /train (fastapi_app.py lines 180-212).  The handler is a plain def, *)
(* so requests run on the threads of the server's pool and interleave; a   *)
(* request that is accepted starts a thread with target _run.  The global  *)
(* _training_thread is assigned and never read.                            *)

MaxTrainings == 3

DatasetDirs == {"", "/data/leaves"}

\* requests between the test of the lock and the start of their thread
TrainInFlight == {t \in Threads : pc[t] \in {"train_check", "train_start"}}

\* a request for /train arrives
TrainRequest(t) ==
    /\ pc[t] = "idle"
    /\ Len(run_threads) + Cardinality(TrainInFlight) < MaxTrainings
    /\ \E dataset_dir \in DatasetDirs :
        frame' = [frame EXCEPT ![t] = [fn |-> "/train", dataset_dir |-> dataset_dir]]
    /\ pc' = [pc EXCEPT ![t] = "train_check"]
    /\ UNCHANGED <<env, _model, _idx_to_label, image, result, loads, map_loads>>

\* lines 188-189: if _training_lock.locked(): return
TrainCheck(t) ==
    /\ pc[t] = "train_check"
    /\ IF _training_lock # 0
       THEN /\ result' = [result EXCEPT ![t] = [status |-> "training_already_running"]]
            /\ pc' = [pc EXCEPT ![t] = "done"]
       ELSE /\ pc' = [pc EXCEPT ![t] = "train_start"]
            /\ UNCHANGED result
    /\ UNCHANGED <<env, _model, _idx_to_label, image, frame, loads, map_loads>>

\* lines 191-194: Path(dataset_dir or default_dataset)
DatasetOf(dataset_dir) == IF dataset_dir = "" THEN "Dataset" ELSE dataset_dir

\* lines 191-212: the paths, threading.Thread(target=_run).start(), the answer
TrainStart(t) ==
    /\ pc[t] = "train_start"
    /\ run_threads' = Append(run_threads,
                             [state |-> "started", dataset |-> DatasetOf(frame[t].dataset_dir)])
    /\ result' = [result EXCEPT ![t] =
           [status |-> "training_started", dataset |-> DatasetOf(frame[t].dataset_dir)]]
    /\ pc' = [pc EXCEPT ![t] = "done"]
    /\ UNCHANGED <<tf, model_file, classes_file, argsort_ties, tmp_files, _training_lock,
                   _model, _idx_to_label, image, frame, loads, map_loads>>

\* what the steps of _run leave alone
RunFrame == <<tf, model_file, classes_file, argsort_ties, tmp_files,
              _model, _idx_to_label, pc, image, frame, result, loads, map_loads>>

\* variant of the with statement that enters without waiting for the lock
RunAcquireAnyway(w) ==
    /\ w \in DOMAIN run_threads
    /\ run_threads[w].state = "started"
    /\ _training_lock' = w
    /\ run_threads' = [run_threads EXCEPT ![w].state = "locked"]
    /\ UNCHANGED RunFrame

\* line 197: with _training_lock, entered once the lock is free
RunAcquire(w) ==
    /\ w \in DOMAIN run_threads
    /\ run_threads[w].state = "started"
    /\ _training_lock = 0
    /\ _training_lock' = w
    /\ run_threads' = [run_threads EXCEPT ![w].state = "locked"]
    /\ UNCHANGED RunFrame

\* lines 198-206: subprocess.run(cmd, check=True) starts deepleaf.py
RunSubprocess(w) ==
    /\ w \in DOMAIN run_threads
    /\ run_threads[w].state = "locked"
    /\ run_threads' = [run_threads EXCEPT ![w].state = "subprocess"]
    /\ UNCHANGED <<RunFrame, _training_lock>>

\* lines 206-208: subprocess.run returns, or raises and the except clause passes
SubprocessEnds(w) ==
    /\ w \in DOMAIN run_threads
    /\ run_threads[w].state = "subprocess"
    /\ \E outcome \in {"returned", "raised"} :
        run_threads' = [run_threads EXCEPT ![w] =
            [state |-> "ended", dataset |-> run_threads[w].dataset, outcome |-> outcome]]
    /\ UNCHANGED <<RunFrame, _training_lock>>

\* the end of the with statement releases the lock
RunRelease(w) ==
    /\ w \in DOMAIN run_threads
    /\ run_threads[w].state = "ended"
    /\ _training_lock' = 0
    /\ run_threads' = [run_threads EXCEPT ![w].state = "finished"]
    /\ UNCHANGED RunFrame

NextTrain ==
    \/ \E t \in Threads :
        \/ TrainRequest(t)
        \/ TrainCheck(t)
        \/ TrainStart(t)
        \/ Return(t)
    \/ \E w \in 1..MaxTrainings :
        \/ RunAcquire(w)
        \/ RunSubprocess(w)
        \/ SubprocessEnds(w)
        \/ RunRelease(w)

SpecTrain == InitCalls /\ [][NextTrain]_vars

\* thread t has just called fn
Applied(t, fn) == pc[t] = "done" /\ "fn" \in DOMAIN frame[t] /\ frame[t].fn = fn

-----------------------------------------------------------------------------
(* Properties of predict_disease and fallback_prediction.                  *)

\* the call of thread t has ended, and how
Ended(t) == pc[t] = "done"
Failed(t) == Ended(t) /\ "e" \in DOMAIN frame[t]
ModelRan(t) == Ended(t) /\ "probs" \in DOMAIN frame[t]

IsFallbackResult(res) == ~IsRaised(res) /\ StrStartsWith(res.modelVersion, S_heuristic_fallback)
IsHealthyResult(res) == "healthStatus" \in DOMAIN res /\ res.healthStatus = "healthy"
IsStage2Result(res) == "healthStatus" \in DOMAIN res /\ res.healthStatus = "unhealthy"

\* the locals of Stage 1 in the call that thread t has just ended
Locals(t) == Stage1(image[t], frame[t].probs, OrEmpty(_idx_to_label), argsort_ties)
FlagCount(s1) == Cardinality({n \in SymptomNames : s1.symptoms[n]})

\* C1: every failure of the model path (backend absent, weight file missing,
\* class map missing, unparseable or empty, load_weights or predict raising)
\* ends the call with the result of fallback_prediction for the same image,
\* whose modelVersion starts with "heuristic_fallback"; a call ends with an
\* exception only when the image cannot be decoded.
C1_FailureDegrades ==
    \A t \in Threads :
        /\ Failed(t) /\ image[t].ok =>
              /\ ~IsRaised(result[t])
              /\ StrStartsWith(result[t].modelVersion, S_heuristic_fallback)
              /\ result[t] = fallback_prediction(image[t], S_ml_failure \o <<frame[t].e>>, NoneStr)
        /\ Ended(t) /\ IsRaised(result[t]) => ~image[t].ok

\* C1 witness: model.predict raised on a decodable image and the call returned a fallback result
C1_Witness ==
    /\ Failed(1) /\ image[1].ok
    /\ frame[1].e = "model.predict failed"
    /\ IsFallbackResult(result[1])

ResultFields ==
    {"healthStatus", "prediction", "disease", "confidence", "modelVersion",
     "cropType", "note", "cause", "suggestions", "prevention"}

\* C2: every returned result has the same fields whichever path made it, and
\* among them a healthStatus that is "healthy" or "unhealthy".
C2_SameShape ==
    \A t \in Threads :
        Ended(t) /\ ~IsRaised(result[t]) =>
            /\ DOMAIN result[t] = ResultFields
            /\ result[t].healthStatus \in {"healthy", "unhealthy"}

\* C2 witness: a returned fallback result without a healthStatus field
C2_Witness ==
    /\ Ended(1) /\ IsFallbackResult(result[1])
    /\ "healthStatus" \notin DOMAIN result[1]

\* the decision rule as documented, from the inputs of the decision
C3_Rule(s1) ==
    LET healthy_score_combined10 ==
            6 * (s1.health_score + Max(0, s1.color_features.green_dominance * 90)) + 4 * s1.healthy_conf
        unhealthy_score == s1.top_conf + 8 * FU * FlagCount(s1)
    IN /\ 10 * unhealthy_score >= healthy_score_combined10
       /\ (FlagCount(s1) >= 1 \/ s1.top_conf >= 70 * FU)

\* C3: once the model has answered, the call goes on to Stage 2 exactly when
\* unhealthy_score >= healthy_score_combined and (some symptom flag is true
\* or the top-1 probability is at least 0.70); otherwise it returns the
\* healthy result.
C3_Stage1Rule ==
    \A t \in Threads :
        ModelRan(t) => (IsHealthyResult(result[t]) <=> ~C3_Rule(Locals(t)))

\* C3 witness: Unhealthy on a symptom flag alone, the top-1 probability being below 0.70
C3_Witness ==
    /\ ModelRan(1)
    /\ IsStage2Result(result[1])
    /\ FlagCount(Locals(1)) >= 1
    /\ Locals(1).top_conf < 70 * FU

\* C4: with no symptom flag and a top-1 probability below 0.70 a working
\* model always yields healthStatus "healthy".
C4_NoCorroborationIsHealthy ==
    \A t \in Threads :
        ModelRan(t) /\ FlagCount(Locals(t)) = 0 /\ Locals(t).top_conf < 70 * FU =>
            IsHealthyResult(result[t])

\* C4 witness: such a call whose unhealthy_score is not below healthy_score_combined
C4_Witness ==
    /\ ModelRan(1)
    /\ FlagCount(Locals(1)) = 0
    /\ Locals(1).top_conf < 70 * FU
    /\ 10 * Locals(1).unhealthy_score >= Locals(1).healthy_score_combined10
    /\ IsHealthyResult(result[1])

\* healthy_score_combined - max(0, (yellow_tint - 0.10) * 80) clamped to [60, 97], times ten
C5_Confidence10(s1) ==
    LET penalty == Max(0, (s1.color_features.yellow_tint - Lit(10, 100)) * 80)
        raw10 == s1.healthy_score_combined10 - 10 * penalty
    IN IF raw10 < 60 * FU * 10 THEN 60 * FU * 10
       ELSE IF raw10 > 97 * FU * 10 THEN 97 * FU * 10
       ELSE raw10

\* C5: when Stage 1 decides Healthy the call returns at once: healthStatus
\* "healthy", disease "Healthy Crop", the model's version string (also when
\* the top-1 confidence is below the low-confidence threshold), the fixed
\* texts rather than looked-up recommendations, and as confidence
\* healthy_score_combined - max(0, (yellow_tint - 0.10) * 80) clamped to
\* [60, 97], given to two decimals.
C5_HealthyShortCircuit ==
    \A t \in Threads :
        ModelRan(t) /\ ~Locals(t).is_unhealthy =>
            /\ IsHealthyResult(result[t])
            /\ result[t].disease = S_Healthy_Crop
            /\ result[t].prediction = S_Healthy_Crop
            /\ result[t].modelVersion = MODEL_VERSION
            /\ result[t].cause = "No disease patterns or stress symptoms detected in the image."
            /\ result[t].confidence = Round2(C5_Confidence10(Locals(t)))
            /\ 6000 <= result[t].confidence /\ result[t].confidence <= 9700

\* C5 witness: Healthy with a top-1 confidence below the threshold and the lower clamp active
C5_Witness ==
    /\ ModelRan(1)
    /\ ~Locals(1).is_unhealthy
    /\ Locals(1).top_conf < LOW_CONF_THRESHOLD
    /\ Locals(1).healthy_score_combined10 < 60 * FU * 10
    /\ result[1].confidence = 6000
    /\ result[1].modelVersion = MODEL_VERSION

C7_LowConfAlwaysFallsBack ==
    \A t \in Threads :
        ModelRan(t) /\ Locals(t).top_conf < 30 * FU =>
            /\ IsFallbackResult(result[t])
            /\ result[t].cropType = Humanize(Locals(t).raw_label).crop_type

\* C7: whenever the model ran, Stage 1 decided Unhealthy and the top-1
\* confidence is below 30.0, the result is a heuristic fallback whose
\* cropType is the crop parsed from the discarded top-1 label, which is not
\* null when the label has a crop token.
C7_LowConfInStage2 ==
    \A t \in Threads :
        ModelRan(t) /\ Locals(t).is_unhealthy /\ Locals(t).top_conf < 30 * FU =>
            /\ IsFallbackResult(result[t])
            /\ result[t].cropType = Humanize(Locals(t).raw_label).crop_type
            /\ StrIn(S_sep3, Locals(t).raw_label) => result[t].cropType # NoneStr

\* C7 witness: top-1 confidence 25.0, Stage 1 Unhealthy, fallback result with the crop
C7_Witness ==
    /\ ModelRan(1)
    /\ Locals(1).is_unhealthy
    /\ Locals(1).top_conf = 25 * FU
    /\ IsFallbackResult(result[1])
    /\ result[1].cropType # NoneStr

\* the six documented rules in their order, and their labels and bases
C8_Rules(f) ==
    << /\ f.green_dominance > Lit(4, 100) /\ f.yellow_tint < Lit(8, 100)
       /\ f.dryness < Lit(55, 100)
       /\ Lit(30, 100) < f.brightness /\ f.brightness < Lit(85, 100),
       f.std_rgb > Lit(20, 100),
       f.yellow_tint > Lit(18, 100),
       f.dryness > Lit(55, 100) /\ f.brightness < Lit(45, 100),
       f.green_dominance < 0 - Lit(8, 100) /\ f.mean_r > Lit(4, 10),
       TRUE >>
C8_Labels == <<S_Healthy_Crop, S_Leaf_Spot, S_Nutrient_Deficiency, S_Leaf_Blight, S_Rust, S_Powdery_Mildew>>
C8_Bases == <<82, 65, 67, 66, 66, 64>>
C8_First(f) == CHOOSE k \in 1..6 : C8_Rules(f)[k] /\ \A j \in 1..(k - 1) : ~C8_Rules(f)[j]

\* C8: the label of every fallback result is the label of the earliest of
\* the six documented rules that the image's features satisfy.
C8_FirstMatchWins ==
    \A t \in Threads :
        Ended(t) /\ IsFallbackResult(result[t]) =>
            /\ result[t].disease = C8_Labels[C8_First(_extract_color_features(image[t]))]
            /\ result[t].prediction = result[t].disease

\* C8 witness: features that satisfy rules 2 and 3, labelled by rule 2
C8_Witness ==
    /\ Ended(1) /\ IsFallbackResult(result[1])
    /\ C8_Rules(_extract_color_features(image[1]))[2]
    /\ C8_Rules(_extract_color_features(image[1]))[3]
    /\ result[1].disease = S_Leaf_Spot

\* n = floor((|green_dominance| + std_rgb_mean + rng_boost) * 20), rng_boost = (digest % 23) / 40
C9_IsFloor(f, digest, n) ==
    LET x == (Abs(f.green_dominance) + f.std_rgb) * 40 + (digest % 23) * FU
    IN n * 2 * FU <= x /\ x < (n + 1) * 2 * FU
C9_Clamp(c) == IF c < 60 THEN 60 ELSE IF c > 93 THEN 93 ELSE c

\* C9: the confidence of every fallback result is base + floor((|gd| + std +
\* rng_boost) * 20) clamped to [60, 93], base being that of the result's
\* label: a whole number between 60 and 93.
C9_FallbackConfidence ==
    \A t \in Threads :
        Ended(t) /\ IsFallbackResult(result[t]) =>
            LET f == _extract_color_features(image[t])
                base == C8_Bases[C8_First(f)]
            IN /\ \E n \in 0..50 :
                    /\ C9_IsFloor(f, image[t].digest, n)
                    /\ result[t].confidence = 100 * C9_Clamp(base + n)
               /\ result[t].confidence % 100 = 0
               /\ 6000 <= result[t].confidence /\ result[t].confidence <= 9300

\* C9 witness: a fallback result whose unclamped confidence exceeds 93
C9_Witness ==
    /\ Ended(1) /\ IsFallbackResult(result[1])
    /\ result[1].confidence = 9300
    /\ \E n \in 12..50 : C9_IsFloor(_extract_color_features(image[1]), image[1].digest, n)
    /\ result[1].disease = S_Healthy_Crop

\* C10: in every interleaving of concurrent calls the weights are built and
\* loaded at most once, and the class map is read and cached at most once.
C10_LoadedOnce == loads <= 1 /\ map_loads <= 1

\* C10 witness: two callers have each loaded the weights
C10_Witness == loads = 2

\* C11: once _model and _idx_to_label are both set, no step of any later
\* call changes either of them, builds the model or loads the weights again,
\* or reads the class map file again.
C11_SingletonsKept ==
    [][_model # None /\ _idx_to_label # None =>
          /\ _model' = _model
          /\ _idx_to_label' = _idx_to_label
          /\ loads' = loads
          /\ map_loads' = map_loads]_vars

\* C11 witness: a later call is at the test of line 53 with both singletons
\* set, the weights loaded once and the class map read once
C11_Witness ==
    /\ _model # None /\ _idx_to_label # None
    /\ loads = 1 /\ map_loads = 1
    /\ pc[1] = "ensure_model" /\ image[1].ok

\* the crop of the call is one of the vocabulary
KnownCrop(t) == \E i \in 1..Len(CROP_TYPES) : CROP_TYPES[i] = frame[t].args.crop_type

\* C12: for every known crop and every raw health vector with entries in
\* [0, 1] that sum to 1, the adjusted vector of either path has all its
\* entries in [0, 1] and sums to 1 within 1e-6.
C12_AdjustedIsDistribution ==
    \A t \in Threads :
        Applied(t, "analyze_image") /\ KnownCrop(t) =>
            LET num == result[t].num
                den == result[t].den
                sum == num[0] + num[1] + num[2]
            IN /\ den > 0
               /\ \A i \in 0..2 : 0 <= num[i] /\ num[i] <= den
               /\ den - sum <= den \div 1000000
               /\ sum - den <= den \div 1000000

\* C12 witness: an adjusted vector of a known crop in which one class was
\* capped at 1 and another floored at 0
C12_Witness ==
    /\ Applied(1, "analyze_image") /\ KnownCrop(1)
    /\ frame[1].args.health_pred[0] > 0 /\ frame[1].args.health_pred[1] > 0
    /\ \E i \in 0..2 : result[1].num[i] = HU
    /\ \E i \in 0..2 : result[1].num[i] = 0 /\ frame[1].args.health_pred[i] > 0

\* C13: the health vector is passed on unchanged when crop_type is "Unknown"
\* or empty, and is adjusted (shifted and renormalised) for every other
\* crop_type; what comes out is a function of the path, crop_type and the
\* raw vector alone.
C13_Unchanged(t) ==
    /\ result[t].den = HU
    /\ \A i \in 0..2 : result[t].num[i] = frame[t].args.health_pred[i]

C13_OnlyWhenDeclared ==
    \A t \in Threads :
        Applied(t, "analyze_image") =>
            IF frame[t].args.crop_type \in {"Unknown", ""}
            THEN C13_Unchanged(t)
            ELSE /\ ~C13_Unchanged(t)
                 /\ result[t].den = result[t].num[0] + result[t].num[1] + result[t].num[2] + 1

\* C13 witness: a call with crop_type "Unknown" returned the raw vector, all
\* of whose classes are positive
C13_Witness ==
    /\ Applied(1, "analyze_image")
    /\ frame[1].args.crop_type = "Unknown"
    /\ \A i \in 0..2 : frame[1].args.health_pred[i] > 0
    /\ C13_Unchanged(1)

\* C14: in both paths the class that gains receives base_magnitude * (0.6 +
\* (index mod N) * 0.1), capped at 1, with (base_magnitude, N) = (0.30, 9)
\* in the single-modal and (0.15, 10) in the multi-modal path.
C14_Magnitude(use_multi_modal, index) ==
    IF use_multi_modal
    THEN (15 * (HU \div 1000)) * (6 + (index % 10))
    ELSE (30 * (HU \div 1000)) * (6 + (index % 9))

C14_Index(t) == (CHOOSE i \in 1..Len(CROP_TYPES) : CROP_TYPES[i] = frame[t].args.crop_type) - 1

C14_SameLaw ==
    \A t \in Threads :
        Applied(t, "analyze_image") /\ KnownCrop(t) =>
            LET index == C14_Index(t)
                gained == frame[t].args.health_pred[index % 3]
                              + C14_Magnitude(frame[t].args.use_multi_modal, index)
            IN result[t].num[index % 3] = (IF gained > HU THEN HU ELSE gained)

\* C14 witness: the multi-modal path gave "Paddy" (index 0) 0.15 * 0.5 = 0.075
C14_Witness ==
    /\ Applied(1, "analyze_image") /\ frame[1].args.use_multi_modal
    /\ frame[1].args.crop_type = "Paddy"
    /\ result[1].num[0] = frame[1].args.health_pred[0] + 75 * (HU \div 1000)

\* the same probabilities, entry by entry
RECURSIVE C15_Gcd(_, _)
C15_Gcd(a, b) == IF b = 0 THEN a ELSE C15_Gcd(b, a % b)
C15_Lowest(n, d) == <<n \div C15_Gcd(n, d), d \div C15_Gcd(n, d)>>
C15_SameVector(v, w) == \A i \in 0..2 : C15_Lowest(v.num[i], v.den) = C15_Lowest(w.num[i], w.den)

\* C15: any two distinct crops of the vocabulary are adjusted differently:
\* for the crop of the call and every other crop some raw vector is mapped
\* to different adjusted vectors, in either path.
C15_DistinctCrops ==
    \A t \in Threads :
        Applied(t, "analyze_image") /\ KnownCrop(t) =>
            \A j \in 1..Len(CROP_TYPES) :
                CROP_TYPES[j] # frame[t].args.crop_type =>
                    \E h \in HealthVectors :
                        ~C15_SameVector(
                            AdjustedHealth(frame[t].args.use_multi_modal, frame[t].args.crop_type, h),
                            AdjustedHealth(frame[t].args.use_multi_modal, CROP_TYPES[j], h))

\* C15 witness: the single-modal path returned for "Potato" what it returns
\* for "Paddy"
C15_Witness ==
    /\ Applied(1, "analyze_image") /\ ~frame[1].args.use_multi_modal
    /\ frame[1].args.crop_type = "Potato"
    /\ frame[1].args.health_pred[1] > 0 /\ frame[1].args.health_pred[2] > 0
    /\ C15_SameVector(result[1], AdjustedHealth(FALSE, "Paddy", frame[1].args.health_pred))

\* raw vectors near the three-way decision boundary
C16_BoundaryVectors ==
    {h \in [0..2 -> {k * (HU \div 20) : k \in 6..8}] : h[0] + h[1] + h[2] = HU}

\* the class each path predicts for each crop of the vocabulary on each
\* boundary vector
C16_Class ==
    [use_multi_modal \in BOOLEAN |->
        [j \in 1..Len(CROP_TYPES) |->
            [h \in C16_BoundaryVectors |->
                Argmax(AdjustedHealth(use_multi_modal, CROP_TYPES[j], h).num)]]]

\* C16: for the crop of the call and every other known crop whose index
\* differs from its index modulo 3, some raw vector near the decision
\* boundary gets a different argmax for the two crops, in either path.
C16_ArgmaxDiffers ==
    \A t \in Threads :
        Applied(t, "analyze_image") /\ KnownCrop(t) =>
            \A j \in 1..Len(CROP_TYPES) :
                (j - 1) % 3 # C14_Index(t) % 3 =>
                    \E h \in C16_BoundaryVectors :
                        C16_Class[frame[t].args.use_multi_modal][C14_Index(t) + 1][h]
                          # C16_Class[frame[t].args.use_multi_modal][j][h]

\* C16 witness: a boundary vector whose argmax is class 0 before and class 2
\* after the adjustment for a crop of pattern 2
C16_Witness ==
    /\ Applied(1, "analyze_image") /\ KnownCrop(1)
    /\ C14_Index(1) % 3 = 2
    /\ frame[1].args.health_pred \in C16_BoundaryVectors
    /\ Argmax(frame[1].args.health_pred) = 0
    /\ Argmax(result[1].num) = 2

\* C17: when the label the crop is taken from (the healthy top-3 label or the
\* top-1 label in the short-circuit, the top-1 label in Stage 2 and in the
\* low-confidence fallback) has a spelling of corn as its crop token, the
\* cropType of the result is "maize".
C17_CornLabels ==
    {DatasetLabels[i] : i \in
        {j \in 1..Len(DatasetLabels) :
            StrLower(SplitLabel(DatasetLabels[j])[1]) \in {S_corn, S_corn_maize}}}

C17_CropSource(t) ==
    IF IsHealthyResult(result[t]) /\ Locals(t).healthy_idx # NoneIdx
    THEN DictGet(OrEmpty(_idx_to_label), Locals(t).healthy_idx, <<>>)
    ELSE Locals(t).raw_label

C17_CornIsMaize ==
    \A t \in Threads :
        ModelRan(t) /\ C17_CropSource(t) \in C17_CornLabels =>
            result[t].cropType = S_maize

\* C17 witness: Stage 2 returns a result of the model for a top-1 label
\* "Corn_(maize)___..." with cropType "corn"
C17_Witness ==
    /\ ModelRan(1) /\ IsStage2Result(result[1])
    /\ Locals(1).raw_label \in C17_CornLabels
    /\ result[1].cropType = S_corn

\* C18: the recommendation for a disease_key is that of the earliest keyword
\* the key contains, in the order blight, rust, spot or mosaic, mildew or
\* mold, healthy; a key that contains none of them gets the default entry.
C18_Has(key, words) == \E w \in words : StrIn(w, StrLower(key))

C18_Cause(key) ==
    IF C18_Has(key, {S_blight}) THEN "Fungal infection thriving in humid, stagnant air."
    ELSE IF C18_Has(key, {S_rust}) THEN "Rust spores spread by wind and dew on leaves."
    ELSE IF C18_Has(key, {S_spot, S_mosaic})
         THEN "Bacterial or viral lesions spread via splashing water or insects."
    ELSE IF C18_Has(key, {S_mildew, S_mold})
         THEN "Powdery spores colonize shaded leaves during humid nights."
    ELSE IF C18_Has(key, {S_healthy}) THEN "No disease detected - Plant is healthy."
    ELSE "Pathogen stress (fungal/bacterial)."

C18_KeywordPrecedence ==
    \A t \in Threads :
        Applied(t, "_recommendations_for_label") =>
            result[t].cause = C18_Cause(frame[t].args.disease_name)

\* C18 witness: the key holds "blight" and "healthy", and the entry returned
\* is the healthy one
C18_Witness ==
    /\ Applied(1, "_recommendations_for_label")
    /\ C18_Has(frame[1].args.disease_name, {S_blight})
    /\ C18_Has(frame[1].args.disease_name, {S_healthy})
    /\ result[1].cause = "No disease detected - Plant is healthy."

\* C19: the health score returned by _detect_symptoms is 92 minus 12, 18,
\* 18, 15 and 10 for the flags discoloration, chlorosis, necrotic_spots,
\* wilting and abnormal_texture that are true, minus max(0, (yellow_tint -
\* 0.10) * 80) and max(0, (dryness - 0.5) * 50), clamped to [40, 97]; and
\* each flag is true exactly under its documented pair of thresholds.
C19_Flag(features, name) ==
    CASE name = "discoloration" ->
             100 * features.std_rgb > 20 * FU /\ 100 * features.brightness < 85 * FU
      [] name = "chlorosis" ->
             100 * features.yellow_tint > 16 * FU /\ 100 * features.green_dominance < 6 * FU
      [] name = "necrotic_spots" ->
             100 * features.std_rgb > 26 * FU /\ 100 * features.brightness < 70 * FU
      [] name = "wilting" ->
             100 * features.dryness > 55 * FU /\ 100 * features.brightness < 55 * FU
      [] name = "abnormal_texture" ->
             /\ 100 * features.std_rgb > 23 * FU
             /\ 100 * features.green_dominance < 10 * FU
             /\ 100 * features.green_dominance > 0 - 10 * FU

C19_Penalty(name) ==
    CASE name = "discoloration" -> 12
      [] name = "chlorosis" -> 18
      [] name = "necrotic_spots" -> 18
      [] name = "wilting" -> 15
      [] name = "abnormal_texture" -> 10

RECURSIVE C19_Sum(_, _)
C19_Sum(features, names) ==
    IF names = {} THEN 0
    ELSE LET n == CHOOSE x \in names : TRUE
         IN (IF C19_Flag(features, n) THEN C19_Penalty(n) * FU ELSE 0)
            + C19_Sum(features, names \ {n})

C19_Score(features) ==
    LET tint == 80 * features.yellow_tint - 8 * FU
        dry == 50 * features.dryness - 25 * FU
        raw == 92 * FU - C19_Sum(features, SymptomNames)
                 - (IF tint > 0 THEN tint ELSE 0) - (IF dry > 0 THEN dry ELSE 0)
    IN IF raw < 40 * FU THEN 40 * FU ELSE IF raw > 97 * FU THEN 97 * FU ELSE raw

C19_HealthScore ==
    \A t \in Threads :
        Applied(t, "_detect_symptoms") =>
            LET features == frame[t].args.features
            IN /\ \A n \in SymptomNames : result[t].symptoms[n] = C19_Flag(features, n)
               /\ result[t].health_score = C19_Score(features)

\* C19 witness: a call with two flags and both continuous penalties, whose
\* score lies strictly between the clamps
C19_Witness ==
    /\ Applied(1, "_detect_symptoms")
    /\ SymptomCount(result[1].symptoms) = 2
    /\ frame[1].args.features.yellow_tint > Lit(10, 100)
    /\ frame[1].args.features.dryness > Lit(5, 10)
    /\ result[1].health_score > 40 * FU
    /\ result[1].health_score < 92 * FU - 30 * FU

\* C21: two calls of predict_disease on the same image in the same
\* environment, one of them possibly the call that loads the model and the
\* other any later call, end the same way: the same exception or the same
\* result, field by field (disease, healthStatus, confidence, cropType,
\* modelVersion and the rest).
C21_Deterministic ==
    \A t1, t2 \in Threads :
        Ended(t1) /\ Ended(t2) /\ image[t1] = image[t2] => result[t1] = result[t2]

\* C21 witness: the call that loaded the weights and another call on the
\* same image have both returned the model's result
C21_Witness ==
    /\ loads = 1
    /\ ModelRan(1) /\ ModelRan(2)
    /\ image[1] = image[2]
    /\ ~IsFallbackResult(result[1])
    /\ result[1] = result[2]

\* C22: for the all-green, evenly lit image the result has healthStatus
\* "healthy", a confidence in [60, 97] and disease and prediction "Healthy
\* Crop" or "Healthy Plant", from the model as well as from the fallback.
C22_GreenIsHealthy ==
    \A t \in Threads :
        Ended(t) /\ image[t] = GreenImage =>
            /\ ~IsRaised(result[t])
            /\ IsHealthyResult(result[t])
            /\ 6000 <= result[t].confidence /\ result[t].confidence <= 9700
            /\ result[t].disease \in {S_Healthy_Crop, S_Healthy_Plant}
            /\ result[t].prediction \in {S_Healthy_Crop, S_Healthy_Plant}

\* C22 witness: with the model unavailable the fallback names a deficiency
\* for the all-green image
C22_Witness ==
    /\ Failed(1) /\ image[1] = GreenImage
    /\ IsFallbackResult(result[1])
    /\ result[1].disease = S_Nutrient_Deficiency

\* C23: for every class list, loading its index-keyed file and loading its
\* label-keyed file both give the map from each index to its name; a
\* missing or unparseable file gives the empty map.
C23_SameMap ==
    \A t \in Threads :
        Applied(t, "_ensure_class_map_loaded") =>
            LET labels == frame[t].args.labels
            IN IF frame[t].args.encoding \in {"index", "label"}
               THEN /\ DOMAIN result[t] = {i - 1 : i \in DOMAIN labels}
                    /\ \A i \in DOMAIN labels : result[t][i - 1] = labels[i]
               ELSE DOMAIN result[t] = {}

\* C23 witness: the label-keyed file of the one class "7" was read as an
\* index-keyed file, giving a map with the key 7
C23_Witness ==
    /\ Applied(1, "_ensure_class_map_loaded")
    /\ frame[1].args.encoding = "label"
    /\ frame[1].args.labels = <<(<<"7">>)>>
    /\ DOMAIN result[1] = {7}

\* C24: when Stage 1 decided Unhealthy and the top-1 confidence is below
\* 30.0, the call returns what fallback_prediction returns for the image
\* with reason "low_conf(<confidence>)" and the crop parsed from the top-1
\* label, with the fallback's own texts and uncapped confidence; at 30.0 and
\* above the result of the model is returned.
C24_Version25 ==
    S_heuristic_fallback \o S_open_paren \o S_low_conf
        \o <<"2", "5", ".", "0">> \o S_close_paren \o S_close_paren

C24_LowConfDiscards ==
    \A t \in Threads :
        ModelRan(t) /\ Locals(t).is_unhealthy =>
            IF Locals(t).top_conf < 30 * FU
            THEN /\ result[t] = fallback_prediction(image[t], LowConfReason(Locals(t).top_conf),
                                                    Humanize(Locals(t).raw_label).crop_type)
                 /\ "healthStatus" \notin DOMAIN result[t]
                 /\ Locals(t).top_conf = 25 * FU => result[t].modelVersion = C24_Version25
            ELSE /\ IsStage2Result(result[t])
                 /\ result[t].modelVersion = MODEL_VERSION

\* C24 witness: Stage 1 decided Unhealthy with a top-1 confidence of exactly
\* 30.0 and the result of the model was returned
C24_Witness ==
    /\ ModelRan(1) /\ Locals(1).is_unhealthy
    /\ Locals(1).top_conf = 30 * FU
    /\ IsStage2Result(result[1])
    /\ result[1].confidence = 3000

\* the crop_adjustment of the call of analyze_image by thread t
C25_Adjustment(t) ==
    IF frame[t].args.use_multi_modal
    THEN CropAdjustment(15, 5, 10, C14_Index(t))
    ELSE CropAdjustment(30, 6, 9, C14_Index(t))

\* C25: in both paths the class index mod 3 gains the full adjustment, capped
\* at 1.0, and each of the other two classes loses between 0.5 and 0.8 times
\* the adjustment unless it is floored at 0.0.
C25_LossRange ==
    \A t \in Threads :
        Applied(t, "analyze_image") /\ KnownCrop(t) =>
            LET before == frame[t].args.health_pred
                after == result[t].num
                adj == C25_Adjustment(t)
            IN  \A i \in 0..2 :
                    IF i = C14_Index(t) % 3
                    THEN after[i] = Min(HU, before[i] + adj)
                    ELSE \/ after[i] = 0
                         \/ /\ 5 * adj <= 10 * (before[i] - after[i])
                            /\ 10 * (before[i] - after[i]) <= 8 * adj

\* C25 witness: the multi-modal path for a crop of pattern 2 takes 0.4 times
\* the adjustment from class 1, which stays above 0
C25_Witness ==
    /\ Applied(1, "analyze_image") /\ KnownCrop(1)
    /\ frame[1].args.use_multi_modal
    /\ C14_Index(1) % 3 = 2
    /\ result[1].num[1] > 0
    /\ 10 * (frame[1].args.health_pred[1] - result[1].num[1]) = 4 * C25_Adjustment(1)

C26_HealthyNames == {S_Healthy_Plant, S_Healthy_Crop}

\* C26: when Stage 1 decided Unhealthy, neither the disease nor the prediction
\* of the result is "Healthy Plant" or "Healthy Crop", whether Stage 2
\* returns the result of the model or the low-confidence fallback.
C26_NoHealthyAfterUnhealthy ==
    \A t \in Threads :
        ModelRan(t) /\ Locals(t).is_unhealthy =>
            /\ result[t].disease \notin C26_HealthyNames
            /\ result[t].prediction \notin C26_HealthyNames

\* C26 witness: Stage 1 decided Unhealthy, the top-1 label is a healthy class
\* kept by Stage 2, and the result names "Healthy Plant" and "Healthy Crop"
C26_Witness ==
    /\ ModelRan(1) /\ Locals(1).is_unhealthy
    /\ Locals(1).top_conf >= 30 * FU
    /\ Humanize(Locals(1).raw_label).is_healthy
    /\ result[1].healthStatus = "unhealthy"
    /\ result[1].disease = S_Healthy_Plant
    /\ result[1].prediction = S_Healthy_Crop

\* C27: no result of a call in which the model ran, returned by Stage 1, by
\* Stage 2 or by the low-confidence fallback, names a disease other than
\* "Healthy Plant" / "Healthy Crop" with a confidence above 80 while fewer
\* than two symptom flags are true.
C27_NoConfidentDiseaseUnflagged ==
    \A t \in Threads :
        ModelRan(t) /\ FlagCount(Locals(t)) < 2 /\ result[t].disease \notin C26_HealthyNames =>
            result[t].confidence <= 8000

\* C27 witness: Stage 1 decided Unhealthy on one symptom flag, the top-1
\* confidence is below 30.0 and the fallback names "Nutrient Deficiency"
\* with confidence 82
C27_Witness ==
    /\ ModelRan(1) /\ Locals(1).is_unhealthy
    /\ FlagCount(Locals(1)) = 1
    /\ Locals(1).top_conf < 30 * FU
    /\ IsFallbackResult(result[1])
    /\ image[1] = [ok |-> TRUE, r |-> 900, g |-> 500, b |-> 500, std |-> 0, digest |-> 45]
    /\ result[1].disease = S_Nutrient_Deficiency
    /\ result[1].confidence = 8200

\* the exceptions _ensure_model_loaded raises
C28_LoadErrors ==
    {"TensorFlow not available - cannot load model", "Model file not found at: MODEL_PATH",
     "Class map not found at: CLASSES_PATH", "load_weights failed"}

\* C28: after a call in which _ensure_model_loaded raised, _model is unset and
\* the call fell back, so the next call runs the load again; and when it
\* raised for want of a class map, _idx_to_label is unset too, so the next
\* call reads the class file again instead of finding a cached empty map.
C28_FailedLoadNotCached ==
    \A t \in Threads :
        Failed(t) /\ frame[t].e \in C28_LoadErrors =>
            /\ _model = None
            /\ IsFallbackResult(result[t])
            /\ frame[t].e = "Class map not found at: CLASSES_PATH" => _idx_to_label = None

\* C28 witness: the class file holds {}, the load raised for want of a class
\* map and the empty map stays cached
C28_Witness ==
    /\ Failed(1) /\ frame[1].e = "Class map not found at: CLASSES_PATH"
    /\ classes_file = EmptyObjectFile
    /\ _model = None
    /\ _idx_to_label # None
    /\ OrEmpty(_idx_to_label) = EmptyDict
    /\ map_loads = 1

\* the threads of _run that have state s
C29_In(s) == {w \in DOMAIN run_threads : run_threads[w].state = s}

\* C29: at most one subprocess runs at a time; a thread of _run is between
\* entering the with statement and leaving it exactly when it holds
\* _training_lock, so the subprocess runs under the lock and a thread whose
\* subprocess ended, returned or raised, and that left no longer holds it.
C29_OneSubprocess ==
    /\ Cardinality(C29_In("subprocess")) <= 1
    /\ \A w \in DOMAIN run_threads :
        run_threads[w].state \in {"locked", "subprocess", "ended"} <=> _training_lock = w
    /\ _training_lock # 0 => _training_lock \in DOMAIN run_threads

\* C29 witness: the first subprocess raised, its thread released the lock,
\* and a second thread runs its subprocess under the lock
C29_Witness ==
    /\ Len(run_threads) >= 2
    /\ run_threads[1].state = "finished" /\ run_threads[1].outcome = "raised"
    /\ run_threads[2].state = "subprocess"
    /\ _training_lock = 2

\* C30: at most one accepted training is outstanding (started and not yet
\* finished) at any time, so a request is answered "training_started" only
\* when no other accepted training is running or waiting.
C30_OneOutstanding ==
    Cardinality({w \in DOMAIN run_threads : run_threads[w].state # "finished"}) <= 1

\* C30 witness: a request was answered "training_started" while an earlier
\* accepted training had been started and had not yet taken the lock
C30_Witness ==
    /\ pc[1] = "done" /\ result[1].status = "training_started"
    /\ pc[2] = "idle"
    /\ Len(run_threads) = 2
    /\ run_threads[1].state = "started"
    /\ run_threads[2].state = "started"
    /\ _training_lock = 0

\* C20: when a request to /predict or /analyze has ended, the temporary
\* file it created no longer exists, whichever way the handler was left.
C20_TempFileRemoved ==
    \A t \in Threads :
        pc[t] = "done" /\ frame[t].fn \in Endpoints =>
            frame[t].tmp_path \notin tmp_files

\* C20 witness: a request to /predict ended with status 500 while its
\* temporary file is still on disk
C20_Witness ==
    /\ pc[1] = "done" /\ frame[1].fn = "/predict"
    /\ result[1].status = 500
    /\ frame[1].tmp_path \in tmp_files

====
